---------------------------- MODULE Spec2Model ----------------------------
(***************************************************************************)
(* A model of shukra's network meta-analysis (src/nma.js, the first file   *)
(* of src/unnamed/part_005) and of its graph component finder              *)
(* (src/src/graph.js).                                                     *)
(*                                                                         *)
(* Conventions.                                                            *)
(*  - JavaScript arrays are sequences; indices are 1-based here, so        *)
(*    indexOf / findIndex return 0 where the code returns -1.              *)
(*  - A JavaScript Set is a sequence without repetition, in insertion      *)
(*    order (the order in which the code iterates it).                     *)
(*  - A floating point number is a tuple: <<>> is NaN, <<v>> is the finite *)
(*    number v, <<"exp", v>> is e^v for v # 0.                             *)
(***************************************************************************)
EXTENDS Integers, Sequences, FiniteSets, TLC

VARIABLES
    \* ---- the arguments of the call
    kind,               \* "OR" (oddsRatioNMA), "MD" (meanDifferenceNMA), "CC", "FILL"
    studies,            \* study label of each arm
    treatments,         \* treatment label of each arm
    positiveCounts,     \* oddsRatioNMA
    totalCounts,        \* oddsRatioNMA
    means,              \* meanDifferenceNMA
    standardDeviations, \* meanDifferenceNMA
    experimentalUnits,  \* meanDifferenceNMA
    randomEffects,
    theta,              \* the weighted least squares solution, one value per treatment
    \* ---- getConnectedComponents
    ccPc, nodes, adjacency, components, searchStart, ccResult,
    currentComponent,   \* the set that the running search adds to, in insertion order
    stack,              \* the calls of dfsAccumulate that have not returned
    \* ---- oddsRatioNMA / meanDifferenceNMA
    pc, err, comps, compIx, componentResults, nma,
    contrastsBuilt, seCorrections, solverRuns,
    last,               \* the outcome of the latest query on the result object
    \* ---- the indirect evidence fill of _NMA
    fPc, fN, fDirect, agg, fi, fj, fk

inputVars == <<kind, studies, treatments, positiveCounts, totalCounts, means,
               standardDeviations, experimentalUnits, randomEffects, theta>>
ccVars    == <<ccPc, nodes, adjacency, components, searchStart, ccResult,
               currentComponent, stack>>
nmaVars   == <<pc, err, comps, compIx, componentResults, nma,
               contrastsBuilt, seCorrections, solverRuns, last>>
fillVars  == <<fPc, fN, fDirect, agg, fi, fj, fk>>
vars      == <<inputVars, ccVars, nmaVars, fillVars>>

-----------------------------------------------------------------------------
(* Bounds of the model.                                                    *)

MaxArms == 5

\* the most arms of a call with arbitrary study and treatment arrays (InitFree)
MaxFreeArms == 4

\* treatments of one component in SpecFill
MaxTreatments == 3

StudyLabels == <<101, 102, 103>>

AllLabels == <<"A", "B", "C", "D", "E", "F", "G", "H", "I", "J", "K", "L", "M", "N", "O", "P">>

TreatmentLabels == SubSeq(AllLabels, 1, 4)

\* connected components of the inputs of InitNetworks
MaxComponents == 3

\* the longest array of a call of _NMA in SpecNMA
MaxLen == 3

\* the largest Q and the most degrees of freedom of SpecI2
MaxQ == 7

MaxDf == 4

\* studies of the inputs of InitRepeats
MaxRepeats == 4

-----------------------------------------------------------------------------
(* Arrays and Sets.                                                        *)

Range(s) == {s[x] : x \in DOMAIN s}

\* Array.prototype.indexOf, 1-based; 0 when absent
IndexOf(s, e) ==
    IF e \in Range(s) THEN CHOOSE x \in DOMAIN s : s[x] = e /\ \A y \in 1..(x - 1) : s[y] # e
    ELSE 0

RECURSIVE UniqueFrom(_, _, _)
UniqueFrom(s, x, acc) ==
    IF x > Len(s) THEN acc
    ELSE UniqueFrom(s, x + 1, IF s[x] \in Range(acc) THEN acc ELSE Append(acc, s[x]))

\* [ ...(new Set(s)) ]: the distinct elements, in order of first occurrence
Unique(s) == UniqueFrom(s, 1, <<>>)

RECURSIVE Ascending(_)
\* the numbers of a set in ascending order: the order in which filter and
\* forEach meet the indices of an array
Ascending(S) ==
    IF S = {} THEN <<>>
    ELSE LET m == CHOOSE m \in S : \A y \in S : m <= y
         IN  <<m>> \o Ascending(S \ {m})

RECURSIVE Concat(_)
Concat(ss) == IF ss = <<>> THEN <<>> ELSE Head(ss) \o Concat(Tail(ss))

-----------------------------------------------------------------------------
(* graph.js                                                                *)

\* the neighbours of a node from the highest index to the lowest
NeighborsDescending(currentIx, adj) ==
    LET asc == Ascending({nix \in DOMAIN adj[currentIx] : adj[currentIx][nix] # 0})
    IN  [x \in DOMAIN asc |-> asc[(Len(asc) + 1) - x]]

\* the indices of the truthy cells of a row, ascending (graph.js:4-7)
Neighbors(currentIx, adj) ==
    Ascending({nix \in DOMAIN adj[currentIx] : adj[currentIx][nix] # 0})

RECURSIVE dfsAccumulate(_, _, _)
RECURSIVE dfsForEach(_, _, _, _)

\* neighbors.forEach of dfsAccumulate, from the x-th neighbour on
dfsForEach(nbrs, x, adj, visitedIxs) ==
    IF x > Len(nbrs) THEN visitedIxs
    ELSE IF nbrs[x] \notin Range(visitedIxs)
         THEN dfsForEach(nbrs, x + 1, adj,
                         dfsAccumulate(nbrs[x], adj, Append(visitedIxs, nbrs[x])))
         ELSE dfsForEach(nbrs, x + 1, adj, visitedIxs)

\* dfsAccumulate without the recursive call: the neighbours are marked visited
\* and never searched
dfsAccumulateNoDescent(currentIx, adj, visitedIxs) ==
    visitedIxs \o SelectSeq(Neighbors(currentIx, adj),
                            LAMBDA nix : nix \notin Range(visitedIxs))

\* the visited set after the call (the code mutates visitedIxs)
dfsAccumulate(currentIx, adj, visitedIxs) ==
    dfsForEach(Neighbors(currentIx, adj), 1, adj, visitedIxs)

\* the first node index in no component; 0 when every node is in one
getNextSearchStart(cs, ns) ==
    LET allNodes == UNION {Range(cs[c]) : c \in DOMAIN cs}
    IN  IF \E x \in DOMAIN ns : x \notin allNodes
        THEN CHOOSE x \in DOMAIN ns :
                x \notin allNodes /\ \A y \in 1..(x - 1) : y \in allNodes
        ELSE 0

BuildNodes(trts) == Unique(trts)

\* an adjacency matrix without the edge of a node to itself
BuildAdjacencyNoLoops(stds, trts, ns) ==
    [a \in DOMAIN ns |-> [b \in DOMAIN ns |->
        IF /\ a # b
           /\ \E x1 \in DOMAIN stds : \E x2 \in DOMAIN stds :
                 /\ trts[x1] = ns[a]
                 /\ trts[x2] = ns[b]
                 /\ stds[x1] = stds[x2]
        THEN 1 ELSE 0]]

\* an adjacency matrix in which every further study of two treatments
\* switches their edge
BuildAdjacencyToggling(stds, trts, ns) ==
    [a \in DOMAIN ns |-> [b \in DOMAIN ns |->
        IF a = b THEN 1
        ELSE Cardinality({s \in Range(stds) :
                \E x1 \in DOMAIN stds, x2 \in DOMAIN stds :
                    /\ stds[x1] = s
                    /\ stds[x2] = s
                    /\ IndexOf(ns, trts[x1]) = a
                    /\ IndexOf(ns, trts[x2]) = b}) % 2]]

\* the adjacency matrix after the uniqueStudies.forEach loop; nodes has no
\* repetition, so nodes.indexOf(t) is a exactly when nodes[a] is t
BuildAdjacency(stds, trts, ns) ==
    [a \in DOMAIN ns |-> [b \in DOMAIN ns |->
        IF \E x1 \in DOMAIN stds : \E x2 \in DOMAIN stds :
              /\ trts[x1] = ns[a]
              /\ trts[x2] = ns[b]
              /\ stds[x1] = stds[x2]
        THEN 1 ELSE 0]]

ComponentLabels(cs, ns) ==
    [c \in DOMAIN cs |-> [x \in DOMAIN cs[c] |-> ns[cs[c][x]]]]

RECURSIVE SearchLoop(_, _, _)
\* the while loop of getConnectedComponents
SearchLoop(cs, adj, ns) ==
    LET start == getNextSearchStart(cs, ns)
    IN  IF start >= 1
        THEN SearchLoop(Append(cs, dfsAccumulate(start, adj, <<>>)), adj, ns)
        ELSE cs

\* getConnectedComponents on arrays of equal length
getConnectedComponents(stds, trts) ==
    IF Len(stds) = 0 THEN <<>>
    ELSE LET ns  == BuildNodes(trts)
             adj == BuildAdjacency(stds, trts, ns)
         IN  ComponentLabels(SearchLoop(<<dfsAccumulate(1, adj, <<>>)>>, adj, ns), ns)

-----------------------------------------------------------------------------
(* Floating point numbers.                                                 *)

NaN == <<>>

Num(v) == <<v>>

isNaN(x) == x = NaN

IsFinite(x) == Len(x) = 1

\* the square root of n / d, n and d positive: the standard error of a study
IsRoot(x) == Len(x) = 3 /\ x[1] = "sqrt"

\* x - y; a number less a root is <<"sum", x, -1, n, d>>
Minus(x, y) ==
    IF IsFinite(x) /\ IsFinite(y) THEN Num(x[1] - y[1])
    ELSE IF IsFinite(x) /\ IsRoot(y) THEN <<"sum", x[1], 0 - 1, y[2], y[3]>>
    ELSE NaN

\* x + y; a number and a root is <<"sum", x, 1, n, d>>
Plus(x, y) ==
    IF IsFinite(x) /\ IsFinite(y) THEN Num(x[1] + y[1])
    ELSE IF IsFinite(x) /\ IsRoot(y) THEN <<"sum", x[1], 1, y[2], y[3]>>
    ELSE NaN

\* x * y; a positive number times a root is a root
Times(x, y) ==
    IF IsFinite(x) /\ IsFinite(y) THEN Num(x[1] * y[1])
    ELSE IF IsFinite(x) /\ IsRoot(y)
    THEN IF x[1] = 0 THEN Num(0) ELSE <<"sqrt", x[1] * x[1] * y[2], y[3]>>
    ELSE NaN

Abs(v) == IF v < 0 THEN 0 - v ELSE v

\* Math.exp
Exp(x) ==
    IF isNaN(x) THEN NaN
    ELSE IF ~IsFinite(x) THEN <<"exp", x>>
    ELSE IF x[1] = 0 THEN Num(1)
    ELSE <<"exp", x[1]>>

-----------------------------------------------------------------------------
(* Matrices: M[r][c], rows and columns from 1.                             *)

FillMatrix(rows, cols, v) == [r \in 1..rows |-> [c \in 1..cols |-> v]]

MSet(M, r, c, v) == [M EXCEPT ![r][c] = v]

-----------------------------------------------------------------------------
(* _NMA: the aggregated treatment effects (nma.js:436-474).                *)
(* A contrast is a record [a |-> index of treatment A, b |-> index of      *)
(* treatment B, e |-> its consistent effect].                              *)

\* nma.js:444-447: the direct evidence, contrast after contrast
RECURSIVE DirectEvidence(_, _, _)
DirectEvidence(M, contrasts, x) ==
    IF x > Len(contrasts) THEN M
    ELSE DirectEvidence(MSet(M, contrasts[x].a, contrasts[x].b, contrasts[x].e),
                        contrasts, x + 1)

\* the body of the triple loop with the first of its three rules only
FillIterationFirstRule(M, i, j, k) ==
    IF ~isNaN(M[i][k]) /\ ~isNaN(M[j][k])
    THEN MSet(MSet(M, i, j, Minus(M[i][k], M[j][k])), j, i, Minus(M[j][k], M[i][k]))
    ELSE M

\* the body of the triple loop writing the mirror cell of its third rule with
\* the sign of the cell
FillIterationMirrorSign(M, i, j, k) ==
    LET ij == M[i][j]
        ik == M[i][k]
        jk == M[j][k]
        kj == M[k][j]
        M1 == IF ~isNaN(ik) /\ ~isNaN(jk)
              THEN MSet(MSet(M, i, j, Minus(ik, jk)), j, i, Minus(jk, ik))
              ELSE M
        M2 == IF ~isNaN(ij) /\ ~isNaN(kj)
              THEN MSet(MSet(M1, i, k, Minus(ij, kj)), k, i, Minus(kj, ij))
              ELSE M1
        M3 == IF ~isNaN(ik) /\ ~isNaN(ij)
              THEN MSet(MSet(M2, j, k, Minus(ik, ij)), k, j, Minus(ik, ij))
              ELSE M2
    IN  M3

\* the body of the triple loop reading, in its second rule, the cell (j, k)
\* where the code reads its mirror (k, j)
FillIterationSecondRuleUnmirrored(M, i, j, k) ==
    LET ij == M[i][j]
        ik == M[i][k]
        jk == M[j][k]
        M1 == IF ~isNaN(ik) /\ ~isNaN(jk)
              THEN MSet(MSet(M, i, j, Minus(ik, jk)), j, i, Minus(jk, ik))
              ELSE M
        M2 == IF ~isNaN(ij) /\ ~isNaN(jk)
              THEN MSet(MSet(M1, i, k, Minus(ij, jk)), k, i, Minus(jk, ij))
              ELSE M1
        M3 == IF ~isNaN(ik) /\ ~isNaN(ij)
              THEN MSet(MSet(M2, j, k, Minus(ik, ij)), k, j, Minus(ij, ik))
              ELSE M2
    IN  M3

\* nma.js:453-471: the body of the triple loop at (i, j, k).  The four cells
\* are read before any of the three updates.
FillIteration(M, i, j, k) ==
    LET ij == M[i][j]
        ik == M[i][k]
        jk == M[j][k]
        kj == M[k][j]
        M1 == IF ~isNaN(ik) /\ ~isNaN(jk)
              THEN MSet(MSet(M, i, j, Minus(ik, jk)), j, i, Minus(jk, ik))
              ELSE M
        M2 == IF ~isNaN(ij) /\ ~isNaN(kj)
              THEN MSet(MSet(M1, i, k, Minus(ij, kj)), k, i, Minus(kj, ij))
              ELSE M1
        M3 == IF ~isNaN(ik) /\ ~isNaN(ij)
              THEN MSet(MSet(M2, j, k, Minus(ik, ij)), k, j, Minus(ij, ik))
              ELSE M2
    IN  M3

\* the innermost loop (nma.js:452-472) from k on; nTreatments is the size of M
RECURSIVE FillOverK(_, _, _, _)
FillOverK(M, i, j, k) ==
    IF k > Len(M) THEN M
    ELSE FillOverK(FillIteration(M, i, j, k), i, j, k + 1)

\* the middle loop (nma.js:451-473) from j on
RECURSIVE FillOverJ(_, _, _)
FillOverJ(M, i, j) ==
    IF j > Len(M) THEN M
    ELSE FillOverJ(FillOverK(M, i, j, 1), i, j + 1)

\* the outer loop (nma.js:450-474) from i on
RECURSIVE FillOverI(_, _)
FillOverI(M, i) ==
    IF i > Len(M) THEN M
    ELSE FillOverI(FillOverJ(M, i, 1), i + 1)

\* aggregatedTreatmentEffects of _NMA for n treatments (nma.js:436-474)
AggregatedTreatmentEffects(n, contrasts) ==
    FillOverI(DirectEvidence(FillMatrix(n, n, NaN), contrasts, 1), 1)

-----------------------------------------------------------------------------
(* nma.js: inferential statistics and the result object.                   *)

\* the interval widths of the model.  STD_NORMAL.ppf(1 - (1 - width) / 2) is 1,
\* 2 and 3 for them (the 68-95-99.7 rule).
Widths == <<"0.6827", "0.9545", "0.9973">>

\* a quantile that does not depend on the width
ppfOfOneWidth(width) == 2

ppf(width) == IndexOf(Widths, width)

\* 1000 * STD_NORMAL.cdf(z) at z = 0, 0.5, 1, ... 3; 1000 from z = 3.5 on
CdfMilli == <<500, 691, 841, 933, 977, 994, 999>>

\* p = 2 * (1 - cdf(|z|)), z = (effect - nullEffect) / standardError, in
\* thousandths.  0 / 0 is NaN, x / 0 is an infinity.
PValue(effect, standardError, nullEffect) ==
    IF IsFinite(effect) /\ IsRoot(standardError)
    THEN LET d == Abs(effect[1] - nullEffect)
             z2 == CHOOSE k \in 0..Len(CdfMilli) :
                      /\ k * k * standardError[2] <= 4 * d * d * standardError[3]
                      /\ \/ k = Len(CdfMilli)
                         \/ (k + 1) * (k + 1) * standardError[2]
                               > 4 * d * d * standardError[3]
         IN  IF z2 + 1 > Len(CdfMilli) THEN Num(0)
             ELSE Num(2 * (1000 - CdfMilli[z2 + 1]))
    ELSE IF ~IsFinite(effect) \/ ~IsFinite(standardError) THEN NaN
    ELSE LET d == Abs(effect[1] - nullEffect)
         IN  IF standardError[1] = 0
             THEN IF d = 0 THEN NaN ELSE Num(0)
             ELSE LET z2 == (2 * d) \div standardError[1]
                  IN  IF z2 + 1 > Len(CdfMilli) THEN Num(0)
                      ELSE Num(2 * (1000 - CdfMilli[z2 + 1]))

\* ComparisonStatistic.OR.transform, ComparisonStatistic.MD.transform
Transform(statistic, x) == IF statistic = "OR" THEN Exp(x) ELSE x

\* nma.js:82-94
computeInferentialStatisticsOf(effect, standardError, statistic, width, nullEffect) ==
    LET lowerBound == Minus(effect, Times(Num(ppf(width)), standardError))
        upperBound == Plus(effect, Times(Num(ppf(width)), standardError))
    IN  [p     |-> PValue(effect, standardError, nullEffect),
         lower |-> Transform(statistic, lowerBound),
         upper |-> Transform(statistic, upperBound)]

\* NetworkMetaAnalysis.getTreatments (nma.js:213-215): a copy of the list
getTreatments(model) == model.treatments

\* getEffect taking the first treatment of the list for an absent one
getEffectFirstIsAbsent(model, treatmentA, treatmentB) ==
    LET i == IndexOf(model.treatments, treatmentA)
        j == IndexOf(model.treatments, treatmentB)
    IN  IF i <= 1 \/ j <= 1
        THEN [threw |-> TRUE]
        ELSE [threw |-> FALSE,
              value |-> Transform(model.comparisonStatistic, model.treatmentEffects[i][j])]

\* NetworkMetaAnalysis.getEffect (nma.js:182-190)
getEffect(model, treatmentA, treatmentB) ==
    LET i == IndexOf(model.treatments, treatmentA)
        j == IndexOf(model.treatments, treatmentB)
    IN  IF i < 1 \/ j < 1
        THEN [threw |-> TRUE]
        ELSE [threw |-> FALSE,
              value |-> Transform(model.comparisonStatistic, model.treatmentEffects[i][j])]

\* NetworkMetaAnalysis.computeInferentialStatistics (nma.js:199-208)
computeInferentialStatistics(model, treatmentA, treatmentB, width) ==
    LET i == IndexOf(model.treatments, treatmentA)
        j == IndexOf(model.treatments, treatmentB)
    IN  IF i < 1 \/ j < 1
        THEN [threw |-> TRUE]
        ELSE [threw |-> FALSE,
              value |-> computeInferentialStatisticsOf(
                            model.treatmentEffects[i][j], model.standardErrors[i][j],
                            model.comparisonStatistic, width, 0)]

\* this._inversion of the constructor (nma.js:172)
inversion(x) == Minus(Num(0), x)

\* the raw effects with the inverted ones left as they were stored
getRawStudyLevelEffectsNotInverted(model, forTreatment) ==
    LET touches(e) == e.treatment1 = forTreatment \/ e.treatment2 = forTreatment
    IN  SelectSeq(model.studyLevelEffects, touches)

\* NetworkMetaAnalysis._getRawStudyLevelEffects (nma.js:250-266)
getRawStudyLevelEffects(model, forTreatment) ==
    LET isDirectional(e) == e.treatment1 = forTreatment
        isInverted(e) == e.treatment2 = forTreatment
        directionalEffects == SelectSeq(model.studyLevelEffects, isDirectional)
        toInvert == SelectSeq(model.studyLevelEffects, isInverted)
        invertedEffects ==
            [x \in DOMAIN toInvert |->
                [toInvert[x] EXCEPT !.effect = inversion(toInvert[x].effect),
                                    !.treatment1 = toInvert[x].treatment2,
                                    !.treatment2 = toInvert[x].treatment1,
                                    !.se = toInvert[x].se]]
    IN  directionalEffects \o invertedEffects

\* NetworkMetaAnalysis.computeStudyLevelEffects (nma.js:275-285)
computeStudyLevelEffects(model, treatment, width) ==
    LET raw == getRawStudyLevelEffects(model, treatment)
    IN  [x \in DOMAIN raw |->
            LET inferentialStats ==
                    computeInferentialStatisticsOf(raw[x].effect, raw[x].se,
                        model.comparisonStatistic, width, 0)
            IN  [p           |-> inferentialStats.p,
                 lower       |-> inferentialStats.lower,
                 upper       |-> inferentialStats.upper,
                 effect      |-> Transform(model.comparisonStatistic, raw[x].effect),
                 treatment1  |-> raw[x].treatment1,
                 treatment2  |-> raw[x].treatment2,
                 study       |-> raw[x].study,
                 comparisonN |-> raw[x].comparisonN]]

RECURSIVE Sum(_)
\* reduce((a, b) => a + b, 0)
Sum(s) == IF s = <<>> THEN 0 ELSE Head(s) + Sum(Tail(s))

\* one entry of ps (nma.js:229-236) in units of 1 / 2000 for the effect te and
\* the two sided p-value p (in thousandths), whatever smallerBetter is
OneSidedPBiggerBetter(te, p, smallerBetter) ==
    IF isNaN(p) THEN NaN
    ELSE IF te = Num(0) THEN Num(1000)
    ELSE IF IsFinite(te) /\ te[1] > 0 THEN Num(2000 - p[1])
    ELSE p

\* one entry of ps (nma.js:229-236) in units of 1 / 2000: weight is .5 for an
\* effect of 0, 1 for a positive one and 0 otherwise (NaN > 0 is false)
OneSidedP(te, p, smallerBetter) ==
    IF isNaN(p) THEN NaN
    ELSE IF te = Num(0) THEN Num(1000)
    ELSE IF IsFinite(te) /\ te[1] > 0
    THEN IF smallerBetter THEN p ELSE Num(2000 - p[1])
    ELSE IF smallerBetter THEN Num(2000 - p[1]) ELSE p

\* coalesceNumeric (nma.js:96-98)
coalesceNumeric(x) == IF isNaN(x) THEN 0 ELSE x[1]

\* the entry of unsortedPscores with every entry of ps counted in the divisor
PScoreOfAllCounted(model, i, smallerBetter) ==
    LET ps == [j \in DOMAIN model.treatments |->
                  LET te == model.treatmentEffects[i][j]
                      se == model.standardErrors[i][j]
                      pValue == computeInferentialStatisticsOf(te, se,
                                    model.comparisonStatistic, Widths[2], 0).p
                  IN  OneSidedP(te, pValue, smallerBetter)]
    IN  [treatment    |-> model.treatments[i],
         sum          |-> Sum([j \in DOMAIN ps |-> coalesceNumeric(ps[j])]),
         presentCount |-> Len(ps),
         present      |-> DOMAIN ps]

\* the entry of unsortedPscores of the treatment i (nma.js:225-239): ps, the
\* sum of its numbers and presentCount.  The score is sum / presentCount, in
\* units of 1 / 2000; the default width of the call does not reach p
PScoreOf(model, i, smallerBetter) ==
    LET ps == [j \in DOMAIN model.treatments |->
                  LET te == model.treatmentEffects[i][j]
                      se == model.standardErrors[i][j]
                      pValue == computeInferentialStatisticsOf(te, se,
                                    model.comparisonStatistic, Widths[2], 0).p
                  IN  OneSidedP(te, pValue, smallerBetter)]
        present == {j \in DOMAIN ps : ~isNaN(ps[j])}
    IN  [treatment    |-> model.treatments[i],
         sum          |-> Sum([j \in DOMAIN ps |-> coalesceNumeric(ps[j])]),
         presentCount |-> Cardinality(present),
         present      |-> present]

\* b.pScore - a.pScore > 0 of the comparator (nma.js:246); 0 / 0 is NaN, which
\* no comparison holds for
ScoreLess(a, b) ==
    /\ a.presentCount > 0
    /\ b.presentCount > 0
    /\ a.sum * b.presentCount < b.sum * a.presentCount

RECURSIVE SortedByScore(_, _)
\* Array.prototype.sort with the comparator of nma.js:246, stable: e goes
\* before the first entry of a lower score
SortedByScore(sorted, e) ==
    IF sorted = <<>> THEN <<e>>
    ELSE IF ScoreLess(Head(sorted), e) THEN <<e>> \o sorted
    ELSE <<Head(sorted)>> \o SortedByScore(Tail(sorted), e)

RECURSIVE SortFrom(_, _, _)
SortFrom(result, sorted, x) ==
    IF x > Len(result) THEN sorted
    ELSE SortFrom(result, SortedByScore(sorted, result[x]), x + 1)

\* NetworkMetaAnalysis.computePScores (nma.js:222-248)
computePScores(model, smallerBetter) ==
    SortFrom([i \in DOMAIN model.treatments |-> PScoreOf(model, i, smallerBetter)],
             <<>>, 1)

\* linearRegression (util.js) throws: too few observations, or the degrees of
\* freedom X.rows - X.columns - 1 = n - 3 that _studentTCDF refuses below 3
linearRegressionThrows(n) == n <= 2 \/ n - 3 < 3

\* Math.max of two standard errors of studies
MaxRoot(a, b) == IF a[2] * b[3] < b[2] * a[3] THEN b ELSE a

RECURSIVE MaxSEFrom(_, _, _)
\* maxSE (nma.js:313)
MaxSEFrom(effects, x, acc) ==
    IF x > Len(effects) THEN acc
    ELSE MaxSEFrom(effects, x + 1, MaxRoot(acc, effects[x].se))

funnelPoints == 500

\* leftFunnel and rightFunnel (nma.js:314-322): funnelPoints points
\* [bound, seIter], of which the model keeps the first (seIter = 0) and the
\* last (seIter = maxSE); side is "lower" or "upper"
Funnel(model, maxSE, level, side) ==
    LET point(seIter) ==
            LET bounds == computeInferentialStatisticsOf(Num(0), seIter,
                              model.comparisonStatistic, level, 0)
            IN  <<IF side = "lower" THEN bounds.lower ELSE bounds.upper, seIter>>
    IN  [length |-> funnelPoints,
         first  |-> point(Times(Num(0), maxSE)),
         last   |-> point(maxSE)]

\* adjustedEffects (nma.js:324-336)
AdjustedEffects(model, studyLevelEffects) ==
    [x \in DOMAIN studyLevelEffects |->
        LET sl == studyLevelEffects[x]
            ti == IndexOf(model.treatments, sl.treatment1)
            tj == IndexOf(model.treatments, sl.treatment2)
            modeledEffect == model.treatmentEffects[ti][tj]
        IN  [study      |-> sl.study,
             treatment1 |-> sl.treatment1,
             treatment2 |-> sl.treatment2,
             se         |-> sl.se,
             effect     |-> Transform(model.comparisonStatistic,
                                Minus(inversion(sl.effect), inversion(modeledEffect)))]]

\* asymmetryResults with the test run for any number of effects
AsymmetryResultsAlways(adjustedEffects) ==
    [asymmetryP    |-> <<"interceptP", Len(adjustedEffects)>>,
     asymmetryTest |-> "Egger"]

\* asymmetryResults (nma.js:338-352): the fields of the Egger test, none when
\* the test is not run or linearRegression throws (caught); interceptP is a
\* number that the model does not compute
AsymmetryResults(adjustedEffects) ==
    IF Len(adjustedEffects) >= 5 /\ ~linearRegressionThrows(Len(adjustedEffects))
    THEN [asymmetryP    |-> <<"interceptP", Len(adjustedEffects)>>,
          asymmetryTest |-> "Egger"]
    ELSE <<>>

\* NetworkMetaAnalysis.computeComparisonAdjustedEffects (nma.js:305-360);
\* undefined is <<>>
computeComparisonAdjustedEffects(model, treatment, level) ==
    LET studyLevelEffects == getRawStudyLevelEffects(model, treatment)
    IN  IF Len(studyLevelEffects) = 0 THEN <<>>
        ELSE LET maxSE == MaxSEFrom(studyLevelEffects, 2, studyLevelEffects[1].se)
                 adjustedEffects == AdjustedEffects(model, studyLevelEffects)
             IN  [effects     |-> adjustedEffects,
                  leftFunnel  |-> Funnel(model, maxSE, level, "lower"),
                  rightFunnel |-> Funnel(model, maxSE, level, "upper")]
                 @@ AsymmetryResults(adjustedEffects)

-----------------------------------------------------------------------------
(* Objects.  A query hands objects to its caller and writes to objects;    *)
(* each is an object of the NetworkMetaAnalysis or an object of its own.   *)
(* An entry of _studyLevelEffects is named by its position, an object that *)
(* the query made by 0.                                                    *)

\* the objects of the array that _getRawStudyLevelEffects returns
\* (nma.js:250-266): the directional entries are the stored objects (filter
\* keeps them), the inverted ones are copies ({ ...e })
rawStudyLevelObjects(model, forTreatment) ==
    LET stored == model.studyLevelEffects
        directional == SelectSeq([x \in DOMAIN stored |-> x],
                                 LAMBDA x : stored[x].treatment1 = forTreatment)
        inverted == SelectSeq([x \in DOMAIN stored |-> x],
                              LAMBDA x : stored[x].treatment2 = forTreatment)
    IN  directional \o [x \in DOMAIN inverted |-> 0]

\* slCopy being the object sl itself
adjustedObjectsInPlace(model, treatment) == rawStudyLevelObjects(model, treatment)

\* the objects slCopy that computeComparisonAdjustedEffects writes to and
\* returns (nma.js:331-335): const slCopy = {...sl} is a new object
adjustedObjects(model, treatment) ==
    [x \in DOMAIN rawStudyLevelObjects(model, treatment) |-> 0]

\* the objects that computeStudyLevelEffects returns (nma.js:276-283): the
\* inferentialStats that _computeInferentialStatistics made (nma.js:89-93)
studyLevelObjects(model, treatment) ==
    [x \in DOMAIN rawStudyLevelObjects(model, treatment) |-> 0]

\* getTreatments returns this._treatments.slice(), an array of its own
\* (nma.js:214): the returned array is not the stored one
getTreatmentsIsStored(model) == FALSE

\* the NetworkMetaAnalysis after the objects were assigned the values: a
\* write to a stored entry is a write to _studyLevelEffects
writeObjects(model, objects, values) ==
    [model EXCEPT !.studyLevelEffects =
        [p \in DOMAIN @ |->
            IF \E x \in DOMAIN objects : objects[x] = p
            THEN values[CHOOSE x \in DOMAIN objects : objects[x] = p]
            ELSE @[p]]]

\* the NetworkMetaAnalysis after computeComparisonAdjustedEffects: its writes
\* are delete slCopy.comparisonN and slCopy.effect = ... (nma.js:332-334)
afterComparisonAdjustedEffects(model, treatment) ==
    LET studyLevelEffects == getRawStudyLevelEffects(model, treatment)
    IN  IF Len(studyLevelEffects) = 0 THEN model
        ELSE writeObjects(model, adjustedObjects(model, treatment),
                          AdjustedEffects(model, studyLevelEffects))

\* selogH with both branches asking for k > 2
SeLogHStrict(q, df) ==
    LET k == df + 1
    IN  IF k > 2
        THEN IF q > k THEN <<"selogH", "q > k", q, k>> ELSE <<"selogH", "q <= k", k>>
        ELSE <<>>

\* selogH of _computeISquared (nma.js:108-119) for an integer df >= 1 and a
\* number q >= 0; <<>> is undefined.  Either formula gives a positive number:
\* log(q) > log(k - 1) and sqrt(2q) > sqrt(2k - 3) when q > k >= 2, and
\* 1 / (3 (k - 2)^2) <= 1 / 3 when k >= 3, so !selogH holds for undefined only
SeLogH(q, df) ==
    LET k == df + 1
    IN  IF q > k
        THEN IF k >= 2 THEN <<"selogH", "q > k", q, k>> ELSE <<>>
        ELSE IF k > 2 THEN <<"selogH", "q <= k", k>> ELSE <<>>

\* backTransform(Math.max(H, 1)) with H = sqrt(q / df) (nma.js:106, 109, 123):
\* (H^2 - 1) / H^2 is the fraction <<q - df, q>>, and 0 when H <= 1
ISquaredOf(q, df) == IF q > df THEN <<q - df, q>> ELSE <<0, 1>>

\* _computeISquared (nma.js:101-134); undefined is <<>>.  lower and upper are
\* backTransform(Math.max(exp(logH -+ ppf * selogH), 1)), kept as the terms
\* they are computed from
computeISquaredOf(q, df, width) ==
    IF df = 0 THEN <<>>
    ELSE IF SeLogH(q, df) = <<>> THEN [i2 |-> ISquaredOf(q, df)]
    ELSE [i2    |-> ISquaredOf(q, df),
          lower |-> <<"backTransform", ISquaredOf(q, df), 0 - ppf(width), SeLogH(q, df)>>,
          upper |-> <<"backTransform", ISquaredOf(q, df), ppf(width), SeLogH(q, df)>>]

\* NetworkMetaAnalysis.computeISquared (nma.js:367-369)
computeISquared(model, width) == computeISquaredOf(model.q, model.dfQ, width)

-----------------------------------------------------------------------------
(* nma.js: preconditions.                                                  *)

\* the arm indices of a study (nma.js:598-601)
ArmIxs(stds, study) == Ascending({ix \in DOMAIN stds : stds[ix] = study})

\* _preconditionUniqueTreatments comparing neighbouring arms only
preconditionUniqueTreatmentsNeighbours(stds, trts) ==
    \E x \in DOMAIN stds :
        /\ x + 1 \in DOMAIN stds
        /\ stds[x] = stds[x + 1]
        /\ trts[x] = trts[x + 1]

\* _preconditionUniqueTreatments throws (nma.js:595-607)
preconditionUniqueTreatmentsThrows(stds, trts) ==
    \E x \in DOMAIN Unique(stds) :
        LET armIxs        == ArmIxs(stds, Unique(stds)[x])
            armTreatments == [y \in DOMAIN armIxs |-> trts[armIxs[y]]]
        IN  Len(armTreatments) # Cardinality(Range(armTreatments))

\* _ORNMAPreconditions without the comparison of the counts
ORNMAPreconditionsNoCounts(stds, trts, positive, total) ==
    IF \/ Len(stds) # Len(trts)
       \/ Len(stds) # Len(positive)
       \/ Len(stds) # Len(total)
    THEN "length"
    ELSE IF preconditionUniqueTreatmentsThrows(stds, trts)
    THEN "unique"
    ELSE "none"

\* the error _ORNMAPreconditions throws, "none" when it returns (nma.js:795-810)
ORNMAPreconditions(stds, trts, positive, total) ==
    IF \/ Len(stds) # Len(trts)
       \/ Len(stds) # Len(positive)
       \/ Len(stds) # Len(total)
    THEN "length"
    ELSE IF \E ix \in DOMAIN positive : positive[ix] > total[ix]
    THEN "count"
    ELSE IF preconditionUniqueTreatmentsThrows(stds, trts)
    THEN "unique"
    ELSE "none"

\* the error _MDNMAPreconditions throws, "none" when it returns (nma.js:846-854);
\* meanDifferenceNMA does not pass it the experimental units (nma.js:904)
MDNMAPreconditions(stds, trts, mns, sds) ==
    IF \/ Len(stds) # Len(trts)
       \/ Len(stds) # Len(mns)
       \/ Len(stds) # Len(sds)
    THEN "length"
    ELSE IF preconditionUniqueTreatmentsThrows(stds, trts)
    THEN "unique"
    ELSE "none"

-----------------------------------------------------------------------------
(* nma.js: one component.                                                  *)

\* the pairs <<i, j>>, i < j, of the double loop of _buildAllPairsORStatistics
\* and _buildAllPairsMeanDifferenceStatistics, in loop order
RECURSIVE ArmPairsFlipped(_, _, _)
\* the pairs of arms from the higher arm to the lower one
ArmPairsFlipped(nArms, i, j) ==
    IF i > nArms - 1 THEN <<>>
    ELSE IF j > nArms THEN ArmPairsFlipped(nArms, i + 1, i + 2)
    ELSE <<<<j, i>>>> \o ArmPairsFlipped(nArms, i, j + 1)

RECURSIVE ArmPairsFrom(_, _, _)
ArmPairsFrom(nArms, i, j) ==
    IF i > nArms - 1 THEN <<>>
    ELSE IF j > nArms THEN ArmPairsFrom(nArms, i + 1, i + 2)
    ELSE <<<<i, j>>>> \o ArmPairsFrom(nArms, i, j + 1)

\* the contrasts of one study with the inner loop starting at the arm itself
buildContrastsWithSelf(study, studyTreatments) ==
    LET pairs == <<<<1, 1>>>> \o ArmPairsFrom(Len(studyTreatments), 1, 2)
    IN  [x \in DOMAIN pairs |->
            [study      |-> study,
             treatment1 |-> studyTreatments[pairs[x][1]],
             treatment2 |-> studyTreatments[pairs[x][2]],
             i          |-> pairs[x][1],
             j          |-> pairs[x][2]]]

\* treatmentsA / treatmentsB of the contrasts of one study (nma.js:760-774,
\* 866-878), as records [study, treatment1, treatment2, i, j]; i and j are the
\* positions of the two arms among the arms of the study
buildContrasts(study, studyTreatments) ==
    LET pairs == ArmPairsFrom(Len(studyTreatments), 1, 2)
    IN  [x \in DOMAIN pairs |->
            [study      |-> study,
             treatment1 |-> studyTreatments[pairs[x][1]],
             treatment2 |-> studyTreatments[pairs[x][2]],
             i          |-> pairs[x][1],
             j          |-> pairs[x][2]]]

\* the arm indices whose treatment is in the component (nma.js:671-676)
ComponentIxs(trts, comp) == Ascending({ix \in DOMAIN trts : IndexOf(comp, trts[ix]) >= 1})

\* nma.js:678-680
UniqueStudiesInComponent(stds, trts, comp) ==
    LET ixs == ComponentIxs(trts, comp)
    IN  Unique([x \in DOMAIN ixs |-> stds[ixs[x]]])

\* the contrasts of every study of the component (nma.js:688-705)
ComponentContrasts(stds, trts, comp) ==
    LET us == UniqueStudiesInComponent(stds, trts, comp)
    IN  Concat([x \in DOMAIN us |->
                LET studyIxs == ArmIxs(stds, us[x])
                IN  buildContrasts(us[x], [y \in DOMAIN studyIxs |-> trts[studyIxs[y]]])])

\* allTreatments of _computePrerequisites (nma.js:563)
OrderedTreatments(contrasts) ==
    Unique([x \in DOMAIN contrasts |-> contrasts[x].treatment1]
            \o [x \in DOMAIN contrasts |-> contrasts[x].treatment2])

\* _NMA throws: the matrix library builds no matrix without rows, so
\* Matrix.diagonal of no standard errors throws (nma.js:413, and the note at
\* nma.js:663)
NMAThrows(contrasts) == Len(contrasts) = 0

\* the length check of _NMA (nma.js:403-408).  The three comparisons are joined
\* by &&, and the third one reads bTreatmentIndices, a name that nothing
\* declares: when the first two hold, evaluating it is a ReferenceError, so the
\* Error of the check is never thrown; when one of the first two fails, the
\* check passes
NMALengthCheck(effects, standardErrors, treatmentIndicesA, treatmentIndicesB) ==
    LET m == Len(effects)
    IN  IF m # Len(standardErrors) /\ m # Len(treatmentIndicesA)
        THEN "ReferenceError"
        ELSE "passed"

\* aggregatedStandardErrors (nma.js:476-481): sqrt(R[i][j]) with
\* R[i][i] = LInv[i][i] + LInv[i][i] - 2 * LInv[i][i]; a positive number off
\* the diagonal, in units in which it is 1
AggregatedStandardErrors(n) ==
    [r \in 1..n |-> [c \in 1..n |-> IF r = c THEN Num(0) ELSE Num(1)]]

\* Math.log((pi / ni) / (pj / nj)) of _buildAllPairsORStatistics (nma.js:763-767)
\* in units of log 5; a, b, c, d are twice pi, ni, pj, nj (incr = .5 makes
\* them odd numbers).  With a total count of 2 every odds is 1/5, 1 or 5.
LogOddsRatio(a, b, c, d) ==
    LET num == a * d
        den == b * c
    IN  IF \E k \in 0..2 : num = (5 ^ k) * den
        THEN Num(CHOOSE k \in 0..2 : num = (5 ^ k) * den)
        ELSE IF \E k \in 1..2 : (5 ^ k) * num = den
        THEN Num(0 - (CHOOSE k \in 1..2 : (5 ^ k) * num = den))
        ELSE <<"log", num, den>>

\* the effect of the contrast of the arms x and y of the input (nma.js:763-767,
\* 871)
EffectOfArms(x, y) ==
    IF kind = "OR"
    THEN LogOddsRatio((2 * positiveCounts[x]) + 1,
                      (2 * (totalCounts[x] - positiveCounts[x])) + 1,
                      (2 * positiveCounts[y]) + 1,
                      (2 * (totalCounts[y] - positiveCounts[y])) + 1)
    ELSE Num(means[x] - means[y])

\* the standard error of the contrast of the arms x and y (nma.js:768, 872-873):
\* <<"sqrt", n, d>> is the square root of n / d
StandardErrorOfArms(x, y) ==
    IF kind = "OR"
    THEN LET a == (2 * positiveCounts[x]) + 1
             b == (2 * (totalCounts[x] - positiveCounts[x])) + 1
             c == (2 * positiveCounts[y]) + 1
             d == (2 * (totalCounts[y] - positiveCounts[y])) + 1
         IN  <<"sqrt", 2 * ((b * c * d) + (a * c * d) + (a * b * d) + (a * b * c)),
               a * b * c * d>>
    ELSE <<"sqrt",
           (standardDeviations[x] * standardDeviations[x] * experimentalUnits[y])
             + (standardDeviations[y] * standardDeviations[y] * experimentalUnits[x]),
           experimentalUnits[x] * experimentalUnits[y]>>

\* comparisonNs (nma.js:769, 874)
ComparisonNOfArms(x, y) ==
    IF kind = "OR" THEN totalCounts[x] + totalCounts[y]
    ELSE experimentalUnits[x] + experimentalUnits[y]

\* studyLevelEffects of the callback of components.map (nma.js:706-713)
StudyLevelEffects(stds, contrasts) ==
    [x \in DOMAIN contrasts |->
        LET x1 == ArmIxs(stds, contrasts[x].study)[contrasts[x].i]
            x2 == ArmIxs(stds, contrasts[x].study)[contrasts[x].j]
        IN  [study       |-> contrasts[x].study,
             treatment1  |-> contrasts[x].treatment1,
             treatment2  |-> contrasts[x].treatment2,
             effect      |-> EffectOfArms(x1, x2),
             se          |-> StandardErrorOfArms(x1, x2),
             comparisonN |-> ComparisonNOfArms(x1, x2)]]

\* the number of pairs taken for the number of arms
invertNChoose2AsPairs(x) == x

\* invertNChoose2 (nma.js:6-8) for the number of pairs of an integer
invertNChoose2(x) == CHOOSE a \in 1..(x + 1) : a * (a - 1) = 2 * x

\* _computeDF1 (nma.js:378-390): twice the sum over the contrasts of
\* 1 / (arms of the study of the contrast), in exact arithmetic; a study of a
\* arms has a * (a - 1) / 2 contrasts, which add up to a - 1
computeDF1(contrastStudies) ==
    LET us == Unique(contrastStudies)
    IN  Sum([x \in DOMAIN us |->
            LET count == Cardinality({y \in DOMAIN contrastStudies :
                                        contrastStudies[y] = us[x]})
            IN  (2 * count) \div invertNChoose2(count)])

\* dfQ with the number of treatments subtracted
DegreesOfFreedomLessTreatments(contrasts) ==
    computeDF1([x \in DOMAIN contrasts |-> contrasts[x].study])
        - Len(OrderedTreatments(contrasts))

\* dfQ of _NMA (nma.js:493-494)
DegreesOfFreedom(contrasts) ==
    computeDF1([x \in DOMAIN contrasts |-> contrasts[x].study])
        - (Len(OrderedTreatments(contrasts)) - 1)

\* Q of _NMA (nma.js:495-497), teDiff' W teDiff.  The solver is not modelled:
\* Q is a number that depends on the contrasts and on their weights, here the
\* number of contrasts under the weights of tau = 0 (pass 1) and half of it,
\* rounded down, under the weights of the tau of the random effects (pass 2)
SolverQ(contrasts, pass) ==
    IF pass = 1 THEN Len(contrasts) ELSE Len(contrasts) \div 2

\* q of the callback taken from the last _NMA that ran
ComponentQLastPass(contrasts, random) == SolverQ(contrasts, IF random THEN 2 ELSE 1)

\* q and dfQ of the callback: those of the first _NMA (nma.js:711-712)
ComponentQ(contrasts, random) == SolverQ(contrasts, 1)

\* what the callback of components.map returns (nma.js:716-738); th is the
\* least squares solution
ComponentResult(contrasts, th) ==
    LET ordered == OrderedTreatments(contrasts)
        indexed == [x \in DOMAIN contrasts |->
                      [a |-> IndexOf(ordered, contrasts[x].treatment1),
                       b |-> IndexOf(ordered, contrasts[x].treatment2),
                       e |-> Num(th[contrasts[x].treatment1] - th[contrasts[x].treatment2])]]
    IN  [treatmentEffects  |-> AggregatedTreatmentEffects(Len(ordered), indexed),
         standardErrors    |-> AggregatedStandardErrors(Len(ordered)),
         orderedTreatments |-> ordered,
         studyLevelEffects |-> StudyLevelEffects(studies, contrasts),
         q                 |-> ComponentQ(contrasts, randomEffects),
         dfQ               |-> DegreesOfFreedom(contrasts)]

-----------------------------------------------------------------------------
(* nma.js: _mergeComponentNMAResults.                                      *)

\* Matrix.setSubMatrix(sub, startRow, startColumn), start 0-based as in the code
setSubMatrix(M, sub, startRow, startColumn) ==
    [r \in DOMAIN M |-> [c \in DOMAIN M[r] |->
        IF /\ r - startRow \in DOMAIN sub
           /\ c - startColumn \in DOMAIN sub[r - startRow]
        THEN sub[r - startRow][c - startColumn]
        ELSE M[r][c]]]

\* the merged effects without the multiplication by NaN
MergeTreatmentEffectsZeros(acc, next) ==
    setSubMatrix(setSubMatrix(FillMatrix(Len(acc) + Len(next), Len(acc) + Len(next), Num(0)),
                              acc, 0, 0),
                 next, Len(acc), Len(acc))

\* nma.js:623-628: Matrix.zeros(..).mul(NaN) is NaN in every cell
MergeTreatmentEffects(acc, next) ==
    setSubMatrix(setSubMatrix(FillMatrix(Len(acc) + Len(next), Len(acc) + Len(next), NaN),
                              acc, 0, 0),
                 next, Len(acc), Len(acc))

\* nma.js:630-635: Matrix.zeros(..), not multiplied by NaN
MergeStandardErrors(acc, next) ==
    setSubMatrix(setSubMatrix(FillMatrix(Len(acc) + Len(next), Len(acc) + Len(next), Num(0)),
                              acc, 0, 0),
                 next, Len(acc), Len(acc))

\* the merged treatments keeping those of the first component only
MergeOrderedTreatmentsFirst(acc, next) == acc

\* nma.js:620: orderedTreatments.concat(r.orderedTreatments)
MergeOrderedTreatments(acc, next) == acc \o next

RECURSIVE MergeFrom(_, _, _)
\* results.slice(1).forEach (nma.js:619-639)
MergeFrom(acc, results, x) ==
    IF x > Len(results) THEN acc
    ELSE MergeFrom(
            [treatmentEffects  |-> MergeTreatmentEffects(acc.treatmentEffects,
                                                         results[x].treatmentEffects),
             standardErrors    |-> MergeStandardErrors(acc.standardErrors,
                                                       results[x].standardErrors),
             orderedTreatments |-> MergeOrderedTreatments(acc.orderedTreatments,
                                                          results[x].orderedTreatments),
             studyLevelEffects |-> acc.studyLevelEffects \o results[x].studyLevelEffects,
             q                 |-> acc.q + results[x].q,
             dfQ               |-> acc.dfQ + results[x].dfQ],
            results, x + 1)

\* nma.js:609-649
mergeComponentNMAResults(results) == MergeFrom(results[1], results, 2)

\* new NetworkMetaAnalysis(...) (nma.js:159-175)
NetworkMetaAnalysis(merged, statistic) ==
    [treatmentEffects    |-> merged.treatmentEffects,
     standardErrors      |-> merged.standardErrors,
     treatments          |-> merged.orderedTreatments,
     studyLevelEffects   |-> merged.studyLevelEffects,
     comparisonStatistic |-> statistic,
     q                   |-> merged.q,
     dfQ                 |-> merged.dfQ]

-----------------------------------------------------------------------------
(* Values every specification gives to the variables it does not use.      *)

IdleInput ==
    /\ positiveCounts = <<>> /\ totalCounts = <<>>
    /\ means = <<>> /\ standardDeviations = <<>> /\ experimentalUnits = <<>>
    /\ randomEffects = FALSE
    /\ theta = <<>>

IdleCC ==
    /\ ccPc = "idle" /\ nodes = <<>> /\ adjacency = <<>> /\ components = <<>>
    /\ searchStart = 0 /\ ccResult = <<>>
    /\ currentComponent = <<>> /\ stack = <<>>

IdleNMA ==
    /\ pc = "idle" /\ err = "none" /\ comps = <<>> /\ compIx = 0
    /\ componentResults = <<>> /\ nma = <<>>
    /\ contrastsBuilt = 0 /\ seCorrections = 0 /\ solverRuns = 0
    /\ last = <<>>

IdleFill ==
    /\ fPc = "idle" /\ fN = 0 /\ fDirect = {} /\ agg = <<>>
    /\ fi = 0 /\ fj = 0 /\ fk = 0

-----------------------------------------------------------------------------
(* Inputs.  The code compares study labels and treatment labels only for   *)
(* equality (===, Set, indexOf) and iterates them in order of first        *)
(* occurrence, so the arrays are enumerated up to a renaming of the        *)
(* labels: a label occurs only after the labels before it in its list.     *)

CanonicalArrays(labels, n) ==
    {s \in [1..n -> Range(labels)] :
        \A x \in 1..n :
            \A l \in 1..(IndexOf(labels, s[x]) - 1) :
                \E y \in 1..(x - 1) : s[y] = labels[l]}

StudyArrays(n) == CanonicalArrays(StudyLabels, n)

TreatmentArrays(n) == CanonicalArrays(TreatmentLabels, n)

-----------------------------------------------------------------------------
(* SpecCC: getConnectedComponents(studies, treatments), one action per     *)
(* search of the outer loop.                                               *)

CCInit ==
    /\ kind = "CC"
    /\ \E n \in 0..MaxArms :
          /\ studies \in StudyArrays(n)
          /\ \/ treatments \in TreatmentArrays(n)
             \/ n > 0 /\ treatments \in TreatmentArrays(n - 1)
    /\ IdleInput /\ IdleNMA /\ IdleFill
    /\ ccPc = "call" /\ nodes = <<>> /\ adjacency = <<>> /\ components = <<>>
    /\ searchStart = 0 /\ ccResult = <<>>
    /\ currentComponent = <<>> /\ stack = <<>>

\* graph.js:34-36
CCThrow ==
    /\ ccPc = "call"
    /\ Len(studies) # Len(treatments)
    /\ ccPc' = "threw"
    /\ UNCHANGED <<nodes, adjacency, components, searchStart, ccResult>>
    /\ UNCHANGED <<currentComponent, stack>>
    /\ UNCHANGED <<inputVars, nmaVars, fillVars>>

\* graph.js:37-39
CCEmpty ==
    /\ ccPc = "call"
    /\ Len(studies) = Len(treatments)
    /\ Len(studies) = 0
    /\ ccResult' = <<>>
    /\ ccPc' = "returned"
    /\ UNCHANGED <<nodes, adjacency, components, searchStart>>
    /\ UNCHANGED <<currentComponent, stack>>
    /\ UNCHANGED <<inputVars, nmaVars, fillVars>>

\* graph.js:41-61: nodes, adjacency, the first search and the next start
CCFirstSearch ==
    /\ ccPc = "call"
    /\ Len(studies) = Len(treatments)
    /\ Len(studies) # 0
    /\ LET ns  == BuildNodes(treatments)
           adj == BuildAdjacency(studies, treatments, ns)
           cs  == <<dfsAccumulate(1, adj, <<>>)>>
       IN  /\ nodes' = ns
           /\ adjacency' = adj
           /\ components' = cs
           /\ searchStart' = getNextSearchStart(cs, ns)
    /\ ccPc' = "loop"
    /\ UNCHANGED ccResult
    /\ UNCHANGED <<currentComponent, stack>>
    /\ UNCHANGED <<inputVars, nmaVars, fillVars>>

\* graph.js:62-67: one iteration of the while loop
CCNextSearch ==
    /\ ccPc = "loop"
    /\ searchStart >= 1
    /\ LET cs == Append(components, dfsAccumulate(searchStart, adjacency, <<>>))
       IN  /\ components' = cs
           /\ searchStart' = getNextSearchStart(cs, nodes)
    /\ UNCHANGED <<ccPc, nodes, adjacency, ccResult>>
    /\ UNCHANGED <<currentComponent, stack>>
    /\ UNCHANGED <<inputVars, nmaVars, fillVars>>

\* graph.js:69-71
CCReturn ==
    /\ ccPc = "loop"
    /\ searchStart < 1
    /\ ccResult' = ComponentLabels(components, nodes)
    /\ ccPc' = "returned"
    /\ UNCHANGED <<nodes, adjacency, components, searchStart>>
    /\ UNCHANGED <<currentComponent, stack>>
    /\ UNCHANGED <<inputVars, nmaVars, fillVars>>

CCNext == CCThrow \/ CCEmpty \/ CCFirstSearch \/ CCNextSearch \/ CCReturn

SpecCC == CCInit /\ [][CCNext]_vars

-----------------------------------------------------------------------------
(* C1.                                                                     *)

\* the pairs of treatments that are arms of one study
SharedStudyPairs ==
    LET arms == DOMAIN treatments \cap DOMAIN studies
    IN  {<<treatments[p[1]], treatments[p[2]]>> :
            p \in {q \in arms \X arms : studies[q[1]] = studies[q[2]]}}

\* two treatments are arms of one study
SharedStudy(t, u) == <<t, u>> \in SharedStudyPairs

RECURSIVE ReachedFrom(_, _)
ReachedFrom(pairs, S) ==
    LET T == S \cup {p[2] : p \in {q \in pairs : q[1] \in S}}
    IN  IF T = S THEN S ELSE ReachedFrom(pairs, T)

\* the treatments that a path of shared-study edges connects to t
PathClass(t) == ReachedFrom(SharedStudyPairs, {t})

\* a path of shared-study edges connects t and u
PathConnects(t, u) == u \in PathClass(t)

InComponent(res, c, t) == t \in Range(res[c])

\* C1: getConnectedComponents returns a partition of the distinct treatments
\* (each in exactly one component, no duplicate, no empty component) in which
\* two treatments share a component iff a path of shared-study edges connects
\* them.
C1_ComponentsArePathClasses ==
    ccPc = "returned" =>
        /\ \A c \in DOMAIN ccResult :
              /\ Len(ccResult[c]) > 0
              /\ Range(ccResult[c]) \subseteq Range(treatments)
              /\ \A x, y \in DOMAIN ccResult[c] :
                    ccResult[c][x] = ccResult[c][y] => x = y
        /\ \A t \in Range(treatments) :
              Cardinality({c \in DOMAIN ccResult : InComponent(ccResult, c, t)}) = 1
        /\ \A t, u \in Range(treatments) :
              (\E c \in DOMAIN ccResult :
                    InComponent(ccResult, c, t) /\ InComponent(ccResult, c, u))
                 <=> PathConnects(t, u)

\* a result with several components, one of them holding two treatments that
\* no study compares directly
C1_Witness ==
    /\ ccPc = "returned"
    /\ Len(ccResult) >= 2
    /\ \E c \in DOMAIN ccResult : \E t, u \in Range(ccResult[c]) :
          t # u /\ ~SharedStudy(t, u)

-----------------------------------------------------------------------------
(* SpecFill: the aggregated treatment effects of _NMA for one connected    *)
(* component of fN treatments, one action per iteration of the triple      *)
(* loop.  fDirect is the set of observed contrasts <<a, b>>; the           *)
(* consistent effect of a contrast is theta[a] - theta[b], theta being the *)
(* least squares solution (consistentContrastEffects = H * effects lies in *)
(* the column space of the contrast matrix B).                             *)

\* a solution with pairwise distinct differences
Ruler(x) == (2 ^ x) - 1

RECURSIVE LinkedFrom(_, _)
LinkedFrom(S, edges) ==
    LET T == S \cup {e[2] : e \in {d \in edges : d[1] \in S}}
                \cup {e[1] : e \in {d \in edges : d[2] \in S}}
    IN  IF T = S THEN S ELSE LinkedFrom(T, edges)

\* the contrasts make the treatments 1..n one connected component
ConnectsAll(n, edges) == LinkedFrom({1}, edges) = 1..n

\* the contrasts of fDirect as an array, in some order
RECURSIVE AsContrasts(_, _)
AsContrasts(edges, th) ==
    IF edges = {} THEN <<>>
    ELSE LET d == CHOOSE d \in edges : TRUE
         IN  <<[a |-> d[1], b |-> d[2], e |-> Num(th[d[1]] - th[d[2]])]>>
                \o AsContrasts(edges \ {d}, th)

FillInit ==
    /\ kind = "FILL"
    /\ studies = <<>> /\ treatments = <<>>
    /\ positiveCounts = <<>> /\ totalCounts = <<>>
    /\ means = <<>> /\ standardDeviations = <<>> /\ experimentalUnits = <<>>
    /\ randomEffects = FALSE
    /\ IdleCC /\ IdleNMA
    /\ \E n \in 2..MaxTreatments :
          /\ fN = n
          /\ theta = [x \in 1..n |-> Ruler(x)]
          /\ fDirect \in {d \in SUBSET {e \in (1..n) \X (1..n) : e[1] # e[2]} :
                            ConnectsAll(n, d)}
    /\ fPc = "direct"
    /\ agg = <<>>
    /\ fi = 0 /\ fj = 0 /\ fk = 0

\* nma.js:437-447
FillDirect ==
    /\ fPc = "direct"
    /\ agg' = DirectEvidence(FillMatrix(fN, fN, NaN), AsContrasts(fDirect, theta), 1)
    /\ fi' = 1 /\ fj' = 1 /\ fk' = 1
    /\ fPc' = "fill"
    /\ UNCHANGED <<fN, fDirect>>
    /\ UNCHANGED <<inputVars, ccVars, nmaVars>>

\* nma.js:450-474: one iteration of the innermost loop
FillStep ==
    /\ fPc = "fill"
    /\ agg' = FillIteration(agg, fi, fj, fk)
    /\ IF fk < fN THEN /\ fk' = fk + 1
                       /\ UNCHANGED <<fi, fj, fPc>>
       ELSE IF fj < fN THEN /\ fk' = 1 /\ fj' = fj + 1
                            /\ UNCHANGED <<fi, fPc>>
       ELSE IF fi < fN THEN /\ fk' = 1 /\ fj' = 1 /\ fi' = fi + 1
                            /\ UNCHANGED fPc
       ELSE /\ fPc' = "done"
            /\ UNCHANGED <<fi, fj, fk>>
    /\ UNCHANGED <<fN, fDirect>>
    /\ UNCHANGED <<inputVars, ccVars, nmaVars>>

FillNext == FillDirect \/ FillStep

SpecFill == FillInit /\ [][FillNext]_vars

-----------------------------------------------------------------------------
(* C3.                                                                     *)

-----------------------------------------------------------------------------
(* Spec: a call of oddsRatioNMA or meanDifferenceNMA and queries on the    *)
(* object it returns.  The call is one synchronous run; it is cut at the   *)
(* precondition check, at the component search, after each component and   *)
(* at the merge so that the order of its steps can be observed.            *)

\* a treatment label of no input
Absent == "Z"

Repeat(n, v) == [x \in 1..n |-> v]

\* the least squares solution: one value per treatment, with pairwise distinct
\* differences
Solution(trts) == [t \in Range(trts) |-> Ruler(IndexOf(AllLabels, t))]

\* valid outcome data for n arms
ValidData(n) ==
    /\ kind \in {"OR", "MD"}
    /\ IF kind = "OR"
       THEN /\ positiveCounts = [x \in 1..n |-> x % 3] /\ totalCounts = Repeat(n, 2)
            /\ means = <<>> /\ standardDeviations = <<>> /\ experimentalUnits = <<>>
       ELSE /\ positiveCounts = <<>> /\ totalCounts = <<>>
            /\ means = [x \in 1..n |-> x] /\ standardDeviations = Repeat(n, 1)
            /\ experimentalUnits = Repeat(n, 10)

\* any arms: every study array and treatment array of up to MaxFreeArms arms,
\* with valid outcome data
InitFree ==
    /\ \E n \in 0..MaxFreeArms :
          /\ studies \in StudyArrays(n)
          /\ treatments \in TreatmentArrays(n)
          /\ ValidData(n)
    /\ randomEffects = FALSE

\* the arms of a chain of two-arm studies: study x compares the x-th and the
\* (x+1)-th treatment; an odd last arm is a single-arm study
ChainStudies(n) == [x \in 1..n |-> StudyLabels[(x + 1) \div 2]]

ChainTreatments(n) == [x \in 1..n |-> AllLabels[((x + 1) \div 2) + ((x + 1) % 2)]]

Around(n) == {m \in {n - 1, n, n + 1} : m >= 0}

\* arrays whose lengths differ and counts that exceed the total, on a chain.
\* The experimental units are never shorter than the studies: the code would
\* read undefined sample sizes.
InitShapes ==
    /\ \E n \in 0..MaxArms :
          /\ studies = ChainStudies(n)
          /\ \E l \in Around(n) : treatments = ChainTreatments(l)
          /\ kind \in {"OR", "MD"}
          /\ IF kind = "OR"
             THEN /\ \E l \in Around(n), bad \in 0..MaxArms :
                        positiveCounts = [x \in 1..l |-> IF x = bad THEN 3 ELSE 1]
                  /\ \E l \in Around(n) : totalCounts = Repeat(l, 2)
                  /\ means = <<>> /\ standardDeviations = <<>> /\ experimentalUnits = <<>>
             ELSE /\ positiveCounts = <<>> /\ totalCounts = <<>>
                  /\ \E l \in Around(n) : means = [x \in 1..l |-> x]
                  /\ \E l \in Around(n) : standardDeviations = Repeat(l, 1)
                  /\ \E l \in {n, n + 1} : experimentalUnits = Repeat(l, 10)
    /\ randomEffects \in BOOLEAN

\* the shapes of one connected component of InitNetworks, as arms
\* <<study, treatment>> numbered within the component
ComponentShapes ==
    { << <<1, 1>>, <<1, 2>> >>,                       \* one two-arm study
      << <<1, 1>>, <<1, 2>>, <<2, 3>>, <<2, 2>> >>,   \* two two-arm studies, a chain
      << <<1, 3>>, <<1, 1>>, <<1, 2>> >> }            \* one three-arm study

\* component c takes the studies 200 + 2c - 1, 200 + 2c and the treatments
\* 3c - 2 .. 3c of AllLabels
NetworkStudies(shapes) ==
    Concat([c \in DOMAIN shapes |->
                [x \in DOMAIN shapes[c] |-> 200 + (2 * (c - 1)) + shapes[c][x][1]]])

NetworkTreatments(shapes) ==
    Concat([c \in DOMAIN shapes |->
                [x \in DOMAIN shapes[c] |-> AllLabels[(3 * (c - 1)) + shapes[c][x][2]]]])

\* networks of 1..MaxComponents connected components
InitNetworks ==
    /\ \E k \in 1..MaxComponents : \E shapes \in [1..k -> ComponentShapes] :
          /\ studies = NetworkStudies(shapes)
          /\ treatments = NetworkTreatments(shapes)
          /\ ValidData(Len(NetworkStudies(shapes)))
    /\ randomEffects \in BOOLEAN

\* the same comparison again and again: up to MaxRepeats studies, each of the
\* first two or the first three treatments, the study x labelled 300 + x
InitRepeats ==
    /\ \E k \in 1..MaxRepeats : \E arms \in [1..k -> {2, 3}] :
          /\ studies = Concat([x \in 1..k |-> Repeat(arms[x], 300 + x)])
          /\ treatments = Concat([x \in 1..k |-> SubSeq(AllLabels, 1, arms[x])])
          /\ ValidData(Sum(arms))
    /\ randomEffects \in BOOLEAN

\* two components: one two-arm study of the first two treatments, and up to
\* MaxRepeats two-arm studies of the next two, the study x labelled 400 + x
InitMixed ==
    /\ \E k \in 1..MaxRepeats :
          /\ studies = <<400, 400>> \o Concat([x \in 1..k |-> Repeat(2, 400 + x)])
          /\ treatments = SubSeq(AllLabels, 1, 2)
                            \o Concat([x \in 1..k |-> SubSeq(AllLabels, 3, 4)])
          /\ ValidData(2 + (2 * k))
    /\ randomEffects \in BOOLEAN

Init ==
    /\ InitFree \/ InitShapes \/ InitNetworks \/ InitRepeats \/ InitMixed
    /\ theta = Solution(treatments)
    /\ IdleCC /\ IdleFill
    /\ pc = "call" /\ err = "none" /\ comps = <<>> /\ compIx = 0
    /\ componentResults = <<>> /\ nma = <<>>
    /\ contrastsBuilt = 0 /\ seCorrections = 0 /\ solverRuns = 0
    /\ last = <<>>

Preconditions ==
    IF kind = "OR"
    THEN ORNMAPreconditions(studies, treatments, positiveCounts, totalCounts)
    ELSE MDNMAPreconditions(studies, treatments, means, standardDeviations)

Throw(e) ==
    /\ pc' = "threw"
    /\ err' = e

\* oddsRatioNMA / meanDifferenceNMA: the preconditions throw (nma.js:828, 904)
PreconditionsThrow ==
    /\ pc = "call"
    /\ Preconditions # "none"
    /\ Throw(Preconditions)
    /\ UNCHANGED <<comps, compIx, componentResults, nma,
                   contrastsBuilt, seCorrections, solverRuns, last>>
    /\ UNCHANGED <<inputVars, ccVars, fillVars>>

\* oddsRatioNMA / meanDifferenceNMA: the preconditions return
PreconditionsPass ==
    /\ pc = "call"
    /\ Preconditions = "none"
    /\ pc' = "validated"
    /\ UNCHANGED <<err, comps, compIx, componentResults, nma,
                   contrastsBuilt, seCorrections, solverRuns, last>>
    /\ UNCHANGED <<inputVars, ccVars, fillVars>>

\* _generalizedNMA: no study (nma.js:662-665)
NoStudies ==
    /\ pc = "validated"
    /\ Len(studies) = 0
    /\ Throw("empty")
    /\ UNCHANGED <<comps, compIx, componentResults, nma,
                   contrastsBuilt, seCorrections, solverRuns, last>>
    /\ UNCHANGED <<inputVars, ccVars, fillVars>>

\* _generalizedNMA: the components (nma.js:667-669)
FindComponents ==
    /\ pc = "validated"
    /\ Len(studies) # 0
    /\ comps' = getConnectedComponents(studies, treatments)
    /\ compIx' = 1
    /\ pc' = "components"
    /\ UNCHANGED <<err, componentResults, nma,
                   contrastsBuilt, seCorrections, solverRuns, last>>
    /\ UNCHANGED <<inputVars, ccVars, fillVars>>

\* the studies _computePrerequisites corrects the standard errors of
\* (nma.js:570-578): the studies of the contrasts
CorrectedStudies(contrasts) == Unique([x \in DOMAIN contrasts |-> contrasts[x].study])

\* the callback of components.map for the component compIx (nma.js:670-739):
\* the contrasts of its studies, _computePrerequisites and _NMA, and both
\* again for random effects.  contrastsBuilt counts the contrasts built,
\* seCorrections the calls of _computeNewSEs, solverRuns the calls of _NMA that
\* returned.
SolveComponent ==
    /\ pc = "components"
    /\ compIx <= Len(comps)
    /\ LET contrasts == ComponentContrasts(studies, treatments, comps[compIx])
           passes    == IF randomEffects THEN 2 ELSE 1
       IN  /\ contrastsBuilt' = contrastsBuilt + Len(contrasts)
           /\ IF NMAThrows(contrasts)
              THEN /\ seCorrections' = seCorrections + Len(CorrectedStudies(contrasts))
                   /\ Throw("matrix")
                   /\ UNCHANGED <<solverRuns, componentResults, compIx>>
              ELSE /\ seCorrections' =
                          seCorrections + (passes * Len(CorrectedStudies(contrasts)))
                   /\ solverRuns' = solverRuns + passes
                   /\ componentResults' =
                          Append(componentResults, ComponentResult(contrasts, theta))
                   /\ compIx' = compIx + 1
                   /\ UNCHANGED <<pc, err>>
    /\ UNCHANGED <<comps, nma, last>>
    /\ UNCHANGED <<inputVars, ccVars, fillVars>>

\* _generalizedNMA: the merge and the result object (nma.js:741-742)
Merge ==
    /\ pc = "components"
    /\ compIx > Len(comps)
    /\ nma' = NetworkMetaAnalysis(mergeComponentNMAResults(componentResults), kind)
    /\ pc' = "built"
    /\ UNCHANGED <<err, comps, compIx, componentResults,
                   contrastsBuilt, seCorrections, solverRuns, last>>
    /\ UNCHANGED <<inputVars, ccVars, fillVars>>

QueryTreatments == Range(nma.treatments) \cup {Absent}

\* nma.getEffect(a, b)
GetEffect ==
    /\ pc = "built"
    /\ last = <<>>
    /\ \E a \in QueryTreatments, b \in QueryTreatments :
          last' = [op |-> "getEffect", a |-> a, b |-> b, width |-> "",
                   result |-> getEffect(nma, a, b)]
    /\ UNCHANGED <<pc, err, comps, compIx, componentResults, nma,
                   contrastsBuilt, seCorrections, solverRuns>>
    /\ UNCHANGED <<inputVars, ccVars, fillVars>>

\* nma.computeInferentialStatistics(a, b, width)
ComputeInferentialStatistics ==
    /\ pc = "built"
    /\ last = <<>>
    /\ \E a \in QueryTreatments, b \in QueryTreatments, width \in Range(Widths) :
          last' = [op |-> "computeInferentialStatistics", a |-> a, b |-> b,
                   width |-> width,
                   result |-> computeInferentialStatistics(nma, a, b, width)]
    /\ UNCHANGED <<pc, err, comps, compIx, componentResults, nma,
                   contrastsBuilt, seCorrections, solverRuns>>
    /\ UNCHANGED <<inputVars, ccVars, fillVars>>

\* nma.computeStudyLevelEffects(a, width)
ComputeStudyLevelEffects ==
    /\ pc = "built"
    /\ last = <<>>
    /\ \E a \in QueryTreatments, width \in Range(Widths) :
          last' = [op |-> "computeStudyLevelEffects", a |-> a, b |-> "",
                   width |-> width,
                   result |-> computeStudyLevelEffects(nma, a, width)]
    /\ UNCHANGED <<pc, err, comps, compIx, componentResults, nma,
                   contrastsBuilt, seCorrections, solverRuns>>
    /\ UNCHANGED <<inputVars, ccVars, fillVars>>

\* nma.computePScores(smallerBetter)
ComputePScores ==
    /\ pc = "built"
    /\ last = <<>>
    /\ \E smallerBetter \in BOOLEAN :
          last' = [op |-> "computePScores", a |-> "", b |-> "", width |-> "",
                   smallerBetter |-> smallerBetter,
                   result |-> computePScores(nma, smallerBetter)]
    /\ UNCHANGED <<pc, err, comps, compIx, componentResults, nma,
                   contrastsBuilt, seCorrections, solverRuns>>
    /\ UNCHANGED <<inputVars, ccVars, fillVars>>

\* nma.computeComparisonAdjustedEffects(a, width)
ComputeComparisonAdjustedEffects ==
    /\ pc = "built"
    /\ last = <<>>
    /\ \E a \in QueryTreatments, width \in Range(Widths) :
          /\ last' = [op |-> "computeComparisonAdjustedEffects", a |-> a, b |-> "",
                      width |-> width,
                      result |-> computeComparisonAdjustedEffects(nma, a, width)]
          /\ nma' = afterComparisonAdjustedEffects(nma, a)
    /\ UNCHANGED <<pc, err, comps, compIx, componentResults,
                   contrastsBuilt, seCorrections, solverRuns>>
    /\ UNCHANGED <<inputVars, ccVars, fillVars>>

\* nma.computeISquared(width)
ComputeISquared ==
    /\ pc = "built"
    /\ last = <<>>
    /\ \E width \in Range(Widths) :
          last' = [op |-> "computeISquared", a |-> "", b |-> "", width |-> width,
                   result |-> computeISquared(nma, width)]
    /\ UNCHANGED <<pc, err, comps, compIx, componentResults, nma,
                   contrastsBuilt, seCorrections, solverRuns>>
    /\ UNCHANGED <<inputVars, ccVars, fillVars>>

\* nma.getTreatments()
GetTreatments ==
    /\ pc = "built"
    /\ last = <<>>
    /\ last' = [op |-> "getTreatments", a |-> "", b |-> "", width |-> "",
                result |-> getTreatments(nma)]
    /\ UNCHANGED <<pc, err, comps, compIx, componentResults, nma,
                   contrastsBuilt, seCorrections, solverRuns>>
    /\ UNCHANGED <<inputVars, ccVars, fillVars>>

\* the value a study-level object holds after the caller overwrote its effect
\* and its second treatment
Overwritten(e) == [e EXCEPT !.effect = Num(0), !.treatment2 = Absent]

\* the objects of the store among those that the last query returned
ReturnedObjects ==
    IF last.op = "computeStudyLevelEffects" THEN studyLevelObjects(nma, last.a)
    ELSE IF last.op = "computeComparisonAdjustedEffects" /\ last.result # <<>>
    THEN adjustedObjects(nma, last.a)
    ELSE <<>>

\* the caller mutates what the last query returned: it pushes a treatment on
\* the array of getTreatments, or overwrites every object of the array of
\* computeStudyLevelEffects or of the effects of
\* computeComparisonAdjustedEffects.  What the mutation reaches of the
\* NetworkMetaAnalysis changes with it.
MutateReturned ==
    /\ pc = "built"
    /\ last # <<>>
    /\ \/ /\ last.op = "getTreatments"
          /\ last' = [last EXCEPT !.op = "mutated", !.b = "getTreatments",
                                  !.result = Append(@, Absent)]
          /\ nma' = IF getTreatmentsIsStored(nma)
                    THEN [nma EXCEPT !.treatments = Append(@, Absent)]
                    ELSE nma
       \/ /\ last.op = "computeStudyLevelEffects"
          /\ last.result # <<>>
          /\ last' = [last EXCEPT !.op = "mutated", !.b = "computeStudyLevelEffects",
                                  !.result = [x \in DOMAIN @ |-> Overwritten(@[x])]]
          /\ nma' = writeObjects(nma, ReturnedObjects,
                                 [x \in DOMAIN ReturnedObjects |->
                                     Overwritten(nma.studyLevelEffects[1])])
       \/ /\ last.op = "computeComparisonAdjustedEffects"
          /\ last.result # <<>>
          /\ last' = [last EXCEPT !.op = "mutated",
                                  !.b = "computeComparisonAdjustedEffects",
                                  !.result.effects = [x \in DOMAIN @ |-> Overwritten(@[x])]]
          /\ nma' = writeObjects(nma, ReturnedObjects,
                                 [x \in DOMAIN ReturnedObjects |->
                                     Overwritten(nma.studyLevelEffects[1])])
    /\ UNCHANGED <<pc, err, comps, compIx, componentResults,
                   contrastsBuilt, seCorrections, solverRuns>>
    /\ UNCHANGED <<inputVars, ccVars, fillVars>>

\* the caller is done with the outcome of a query and may query again
NextQuery ==
    /\ pc = "built"
    /\ last # <<>>
    /\ last' = <<>>
    /\ UNCHANGED <<pc, err, comps, compIx, componentResults, nma,
                   contrastsBuilt, seCorrections, solverRuns>>
    /\ UNCHANGED <<inputVars, ccVars, fillVars>>

Next ==
    \/ PreconditionsThrow
    \/ PreconditionsPass
    \/ NoStudies
    \/ FindComponents
    \/ SolveComponent
    \/ Merge
    \/ GetEffect
    \/ ComputeInferentialStatistics
    \/ ComputeStudyLevelEffects
    \/ ComputePScores
    \/ ComputeComparisonAdjustedEffects
    \/ ComputeISquared
    \/ GetTreatments
    \/ MutateReturned
    \/ NextQuery

Spec == Init /\ [][Next]_vars

-----------------------------------------------------------------------------
(* Claims on Spec.                                                         *)

Returned == pc = "built"

Queried == pc = "built" /\ last # <<>>

InNetwork(t) == t \in Range(nma.treatments)

Cell(M, a, b) == M[IndexOf(nma.treatments, a)][IndexOf(nma.treatments, b)]

\* C2: for treatments a, b of different connected components getEffect(a, b)
\* returns NaN and computeInferentialStatistics(a, b, width) returns p, lower
\* and upper all NaN, without throwing, in both argument orders and for any
\* number of components.
C2_CrossComponentIsNaN ==
    (/\ Queried
     /\ InNetwork(last.a) /\ InNetwork(last.b)
     /\ ~PathConnects(last.a, last.b))
    => /\ ~last.result.threw
       /\ last.op = "getEffect" => isNaN(last.result.value)
       /\ last.op = "computeInferentialStatistics" =>
             /\ isNaN(last.result.value.p)
             /\ isNaN(last.result.value.lower)
             /\ isNaN(last.result.value.upper)

\* the inferential statistics of a treatment of the third component against
\* one of the first
C2_Witness ==
    /\ Queried
    /\ Len(comps) >= 3
    /\ last.op = "computeInferentialStatistics"
    /\ last.a \in Range(comps[3]) /\ last.b \in Range(comps[1])
    /\ ~last.result.threw
    /\ isNaN(last.result.value.p)

\* C4: within a connected component the additive-scale effect matrix is
\* antisymmetric with a zero diagonal, so getEffect(a, a) is 0 for the mean
\* difference and 1 for the odds ratio.
C4_AntisymmetricZeroDiagonal ==
    /\ Returned =>
          LET pairs == SharedStudyPairs
              E     == nma.treatmentEffects
          IN  \A i \in DOMAIN nma.treatments :
                  LET class == ReachedFrom(pairs, {nma.treatments[i]})
                  IN  \A j \in {x \in DOMAIN nma.treatments : nma.treatments[x] \in class} :
                          /\ IsFinite(E[i][j])
                          /\ E[i][j] = Minus(Num(0), E[j][i])
                          /\ E[i][i] = Num(0)
    /\ (Queried /\ last.op = "getEffect" /\ InNetwork(last.a) /\ last.a = last.b) =>
          /\ ~last.result.threw
          /\ last.result.value = IF kind = "OR" THEN Num(1) ELSE Num(0)

\* getEffect(a, a) on an odds ratio model in which a pair of treatments that no
\* study compares has a non-zero effect
C4_Witness ==
    /\ Queried
    /\ kind = "OR"
    /\ last.op = "getEffect" /\ InNetwork(last.a) /\ last.a = last.b
    /\ last.result.value = Num(1)
    /\ \E a \in Range(nma.treatments), b \in Range(nma.treatments) :
          /\ PathConnects(a, b) /\ ~SharedStudy(a, b)
          /\ Cell(nma.treatmentEffects, a, b) # Num(0)

\* the arrays of the call
CallArrays ==
    IF kind = "OR" THEN <<studies, treatments, positiveCounts, totalCounts>>
    ELSE <<studies, treatments, means, standardDeviations, experimentalUnits>>

SameLengths == \A x \in DOMAIN CallArrays : Len(CallArrays[x]) = Len(studies)

\* C5: oddsRatioNMA and meanDifferenceNMA throw when their arrays do not all
\* have the same length; no array is exempt.
C5_UnequalLengthsThrow == ~SameLengths => ~Returned

\* two arms of one study have the same treatment
DuplicateArm ==
    \E x \in DOMAIN studies, y \in DOMAIN studies :
        /\ x # y
        /\ x \in DOMAIN treatments /\ y \in DOMAIN treatments
        /\ studies[x] = studies[y]
        /\ treatments[x] = treatments[y]

\* C6: the call throws whenever some study has two arms with the same
\* treatment, wherever they sit in the arrays, and never throws the
\* duplicate-treatment error when the arms of every study are distinct.
C6_DuplicateArmsThrow ==
    /\ DuplicateArm => pc \in {"call", "threw"}
    /\ ~DuplicateArm => err # "unique"

\* the duplicate-treatment error for two arms of one study that an arm of
\* another study separates
C6_Witness ==
    /\ pc = "threw" /\ err = "unique"
    /\ \E x \in DOMAIN studies, y \in DOMAIN studies, z \in DOMAIN studies :
          /\ x < z /\ z < y
          /\ studies[x] = studies[y] /\ treatments[x] = treatments[y]
          /\ studies[z] # studies[x]

CountExceedsTotal ==
    \E ix \in DOMAIN positiveCounts :
        ix \in DOMAIN totalCounts /\ positiveCounts[ix] > totalCounts[ix]

\* C7: oddsRatioNMA throws whenever the positive count of an arm is greater
\* than its total count, and returns no result object.
C7_CountAboveTotalThrows ==
    (kind = "OR" /\ CountExceedsTotal) => (pc \in {"call", "threw"} /\ nma = <<>>)

\* the count error for an arm that is not the first
C7_Witness ==
    /\ pc = "threw" /\ err = "count"
    /\ positiveCounts[1] <= totalCounts[1]
    /\ \E ix \in DOMAIN positiveCounts : ix > 1 /\ positiveCounts[ix] > totalCounts[ix]

EveryStudySingleArm ==
    /\ Len(studies) > 0
    /\ Len(studies) = Len(treatments)
    /\ \A x \in DOMAIN studies, y \in DOMAIN studies : studies[x] = studies[y] => x = y

\* C8: the construction throws when every study of a non-empty input has
\* exactly one arm: it returns no object, and the first component makes the
\* solver throw.
C8_NoContrastThrows ==
    EveryStudySingleArm =>
        /\ ~Returned /\ nma = <<>>
        /\ pc = "components" => (compIx = 1 /\ componentResults = <<>>)
        /\ pc = "threw" => err \in {"length", "count", "matrix"}

\* the throw on three single-arm studies, two of them of one treatment
C8_Witness ==
    /\ EveryStudySingleArm
    /\ pc = "threw" /\ err = "matrix"
    /\ Len(studies) = 3 /\ treatments[1] = treatments[3] /\ treatments[1] # treatments[2]

\* C9: getEffect and computeInferentialStatistics throw whenever a or b is not
\* a treatment of the network, and never throw when both are.
C9_AbsentTreatmentThrows ==
    (Queried /\ last.op \in {"getEffect", "computeInferentialStatistics"}) =>
        (last.result.threw <=> (~InNetwork(last.a) \/ ~InNetwork(last.b)))

\* computeInferentialStatistics with an absent second treatment
C9_Witness ==
    /\ Queried
    /\ last.op = "computeInferentialStatistics"
    /\ InNetwork(last.a) /\ ~InNetwork(last.b)
    /\ last.result.threw

\* C10: a call that ends with an error raised it before any contrast was
\* built and before any standard error correction or solver run, for any
\* component.
C10_ErrorsBeforeNumericWork ==
    pc = "threw" => (contrastsBuilt = 0 /\ seCorrections = 0 /\ solverRuns = 0)

\* C11: whenever the construction succeeds, getTreatments() holds every
\* distinct treatment of the input exactly once, and its length is the number
\* of rows and of columns of the merged effect matrix and of the merged
\* standard error matrix.
C11_TreatmentsOnceEach ==
    Returned =>
        LET ts == getTreatments(nma)
        IN  /\ Range(ts) = Range(treatments)
            /\ \A x \in DOMAIN ts, y \in DOMAIN ts : ts[x] = ts[y] => x = y
            /\ Len(nma.treatmentEffects) = Len(ts)
            /\ Len(nma.standardErrors) = Len(ts)
            /\ \A r \in DOMAIN ts :
                  /\ Len(nma.treatmentEffects[r]) = Len(ts)
                  /\ Len(nma.standardErrors[r]) = Len(ts)

\* a model of several components whose input names some treatment in more
\* than one arm
C11_Witness ==
    /\ Returned
    /\ Len(comps) >= 2
    /\ Len(getTreatments(nma)) < Len(treatments)
    /\ Len(getTreatments(nma)) = Cardinality(Range(treatments))


\* the pairs <<x, y>> of arms of one study of which the first is an arm of t:
\* the study contrasts that involve t
ContrastsOf(t) ==
    {xy \in (DOMAIN treatments) \X (DOMAIN treatments) :
        /\ xy[1] # xy[2]
        /\ studies[xy[1]] = studies[xy[2]]
        /\ treatments[xy[1]] = t}

\* what computeStudyLevelEffects(t, width) holds for the contrast of the arms
\* x (of t) and y: stored from the lower to the higher arm, negated and
\* swapped when t is the higher one, the standard error as stored
StudyLevelEntry(x, y, width) ==
    LET stored == IF x < y THEN EffectOfArms(x, y) ELSE inversion(EffectOfArms(y, x))
        se == IF x < y THEN StandardErrorOfArms(x, y) ELSE StandardErrorOfArms(y, x)
        inferentialStats == computeInferentialStatisticsOf(stored, se, kind, width, 0)
    IN  [p           |-> inferentialStats.p,
         lower       |-> inferentialStats.lower,
         upper       |-> inferentialStats.upper,
         effect      |-> Transform(kind, stored),
         treatment1  |-> treatments[x],
         treatment2  |-> treatments[y],
         study       |-> studies[x],
         comparisonN |-> ComparisonNOfArms(x, y)]

\* C12: computeStudyLevelEffects(t, width) returns exactly one entry for every
\* study contrast that involves t, each with t as treatment1; where t was
\* stored as the second treatment the effect is negated, the treatments are
\* swapped and the standard error (hence the interval half width) is the
\* stored one.
C12_StudyLevelEffectsOrientedToTreatment ==
    (Queried /\ last.op = "computeStudyLevelEffects") =>
        LET out == last.result
            cs == ContrastsOf(last.a)
        IN  /\ Len(out) = Cardinality(cs)
            /\ \A z \in DOMAIN out : out[z].treatment1 = last.a
            /\ \A xy \in cs :
                  Cardinality({z \in DOMAIN out :
                      out[z] = StudyLevelEntry(xy[1], xy[2], last.width)}) = 1

C12_Witness ==
    /\ Queried
    /\ last.op = "computeStudyLevelEffects"
    /\ \E xy \in ContrastsOf(last.a) : xy[1] < xy[2]
    /\ \E xy \in ContrastsOf(last.a) :
          /\ xy[1] > xy[2]
          /\ EffectOfArms(xy[2], xy[1]) # Num(0)
          /\ \E z \in DOMAIN last.result :
                /\ last.result[z].study = studies[xy[1]]
                /\ last.result[z].treatment2 = treatments[xy[2]]
                /\ last.result[z].effect
                     = Transform(kind, inversion(EffectOfArms(xy[2], xy[1])))

\* the treatments of a result of computePScores, in its order
RankingOf(result) == [x \in DOMAIN result |-> result[x].treatment]

Reverse(s) == [x \in DOMAIN s |-> s[(Len(s) + 1) - x]]

\* one score per treatment of the model, each in [0, 1]
OneScoreEach(result) ==
    /\ Len(result) = Len(nma.treatments)
    /\ Range(RankingOf(result)) = Range(nma.treatments)
    /\ \A x \in DOMAIN result :
          /\ result[x].presentCount > 0
          /\ 0 <= result[x].sum
          /\ result[x].sum <= 2000 * result[x].presentCount

\* C13 as stated: one score per treatment, each in [0,1], and the order returned
\* under smallerBetter=true is the order returned under smallerBetter=false
\* read backwards.
C13_RankingIsReversed ==
    (Queried /\ last.op = "computePScores") =>
        /\ OneScoreEach(last.result)
        /\ RankingOf(computePScores(nma, TRUE))
             = Reverse(RankingOf(computePScores(nma, FALSE)))

\* the entry of a treatment in a result of computePScores
ScoreOf(result, t) == result[CHOOSE x \in DOMAIN result : result[x].treatment = t]

\* C13 amended: one score per treatment, each in [0,1]; the score of a treatment
\* under smallerBetter=true is 1 minus its score under smallerBetter=false, the
\* result is in descending order of the scores, so two treatments of different
\* scores change places, and two treatments of the same score are in the order
\* of the treatment list under both settings.
C13_ScoresAreReversed ==
    (Queried /\ last.op = "computePScores") =>
        LET mine == last.result
            other == computePScores(nma, ~last.smallerBetter)
            at(result, t) == CHOOSE x \in DOMAIN result : result[x].treatment = t
        IN  /\ OneScoreEach(mine)
            /\ \A t \in Range(nma.treatments) :
                  /\ ScoreOf(mine, t).presentCount = ScoreOf(other, t).presentCount
                  /\ ScoreOf(mine, t).sum + ScoreOf(other, t).sum
                       = 2000 * ScoreOf(mine, t).presentCount
            /\ \A x \in DOMAIN mine, y \in DOMAIN mine :
                  x < y => ~ScoreLess(mine[x], mine[y])
            /\ \A t \in Range(nma.treatments), u \in Range(nma.treatments) :
                  IF ScoreLess(ScoreOf(mine, t), ScoreOf(mine, u))
                  THEN /\ at(mine, u) < at(mine, t)
                       /\ at(other, t) < at(other, u)
                  ELSE (~ScoreLess(ScoreOf(mine, u), ScoreOf(mine, t))
                          /\ IndexOf(nma.treatments, t) < IndexOf(nma.treatments, u))
                       => /\ at(mine, t) < at(mine, u)
                          /\ at(other, t) < at(other, u)

\* two components whose first treatments have the same score and whose other
\* treatments have a lower one
C13_Witness ==
    /\ Queried
    /\ last.op = "computePScores"
    /\ Len(last.result) >= 4
    /\ \E x \in DOMAIN last.result, y \in DOMAIN last.result :
          /\ x < y
          /\ ~ScoreLess(last.result[y], last.result[x])
    /\ \E x \in DOMAIN last.result, y \in DOMAIN last.result :
          ScoreLess(last.result[y], last.result[x])
    /\ RankingOf(computePScores(nma, TRUE))
         # Reverse(RankingOf(computePScores(nma, FALSE)))

\* the indices in the treatment list of the model of the treatments other than
\* the one at i that are in the component of the one at i
OthersInComponent(i) ==
    {j \in DOMAIN nma.treatments :
        /\ j # i
        /\ \E c \in DOMAIN comps :
              /\ nma.treatments[i] \in Range(comps[c])
              /\ nma.treatments[j] \in Range(comps[c])}

\* C14: the score of treatment i is the mean of the one-sided p-values over
\* exactly the treatments j other than i in the component of i: the
\* self-comparison and the cross-component (NaN) cells are in neither the sum
\* nor the divisor, and every treatment has a score although some of its cells
\* are NaN.
C14_ScoreIsMeanOverComponent ==
    (Queried /\ last.op = "computePScores") =>
        \A x \in DOMAIN last.result :
            LET e == last.result[x]
                i == IndexOf(nma.treatments, e.treatment)
                others == OthersInComponent(i)
                oneSided(j) ==
                    OneSidedP(nma.treatmentEffects[i][j],
                              PValue(nma.treatmentEffects[i][j],
                                     nma.standardErrors[i][j], 0),
                              last.smallerBetter)
            IN  /\ i >= 1
                /\ e.present = others
                /\ e.presentCount = Cardinality(others)
                /\ e.presentCount >= 1
                /\ \A j \in others : IsFinite(oneSided(j))
                /\ e.sum = Sum([j \in DOMAIN nma.treatments |->
                                  IF j \in others THEN oneSided(j)[1] ELSE 0])

\* a treatment with two others in its component and one outside of it
C14_Witness ==
    /\ Queried
    /\ last.op = "computePScores"
    /\ \E x \in DOMAIN last.result :
          /\ last.result[x].presentCount >= 2
          /\ last.result[x].presentCount + 1 < Len(nma.treatments)
          /\ last.result[x].sum > 0
          /\ \E j \in DOMAIN nma.treatments :
                isNaN(nma.treatmentEffects[
                          IndexOf(nma.treatments, last.result[x].treatment)][j])

\* the study contrasts of the treatment of the last query
ContrastsOfQuery == Cardinality(ContrastsOf(last.a))

\* C15: whenever the treatment given to computeComparisonAdjustedEffects has 5
\* or more study-level contrasts, the result has asymmetryP and asymmetryTest
\* is 'Egger'.
C15_EggerFromFiveContrasts ==
    (Queried /\ last.op = "computeComparisonAdjustedEffects"
        /\ ContrastsOfQuery >= 5) =>
        /\ last.result # <<>>
        /\ "asymmetryP" \in DOMAIN last.result
        /\ "asymmetryTest" \in DOMAIN last.result
        /\ last.result.asymmetryTest = "Egger"

\* C16: with 1 to 4 study-level contrasts computeComparisonAdjustedEffects does
\* not throw and returns effects, leftFunnel and rightFunnel without asymmetryP
\* and without asymmetryTest; every result has both asymmetry fields or none.
C16_FewContrastsNoAsymmetryFields ==
    (Queried /\ last.op = "computeComparisonAdjustedEffects") =>
        /\ (ContrastsOfQuery \in 1..4) =>
              /\ last.result # <<>>
              /\ DOMAIN last.result = {"effects", "leftFunnel", "rightFunnel"}
              /\ Len(last.result.effects) = ContrastsOfQuery
              /\ last.result.leftFunnel.length = funnelPoints
              /\ last.result.rightFunnel.length = funnelPoints
        /\ last.result # <<>> =>
              ("asymmetryP" \in DOMAIN last.result
                  <=> "asymmetryTest" \in DOMAIN last.result)

\* four contrasts of the treatment, one short of the threshold of the test
C16_Witness ==
    /\ Queried
    /\ last.op = "computeComparisonAdjustedEffects"
    /\ ContrastsOfQuery = 4
    /\ Len(last.result.effects) = 4
    /\ last.result.rightFunnel.first[2] = Num(0)

-----------------------------------------------------------------------------
(* _computeISquared as a function of Q, the degrees of freedom and the     *)
(* width: a model object that holds any Q of 0..MaxQ and any degrees of    *)
(* freedom of 0..MaxDf.                                                    *)

I2Init ==
    /\ kind = "MD" /\ studies = <<>> /\ treatments = <<>>
    /\ IdleInput /\ IdleCC /\ IdleFill
    /\ pc = "built" /\ err = "none" /\ comps = <<>> /\ compIx = 0
    /\ componentResults = <<>>
    /\ \E q \in 0..MaxQ, dfQ \in 0..MaxDf : nma = [q |-> q, dfQ |-> dfQ]
    /\ contrastsBuilt = 0 /\ seCorrections = 0 /\ solverRuns = 0
    /\ last = <<>>

I2Next == ComputeISquared \/ NextQuery

SpecI2 == I2Init /\ [][I2Next]_vars

\* C18: computeISquared returns undefined when the degrees of freedom are 0;
\* for degrees of freedom >= 1 and Q >= 0 it returns an object with i2 only
\* exactly when the degrees of freedom are 1 and Q <= 2, and an object with i2,
\* lower and upper otherwise.
C18_ISquaredShape ==
    (Queried /\ last.op = "computeISquared") =>
        IF nma.dfQ = 0 THEN last.result = <<>>
        ELSE /\ last.result # <<>>
             /\ IF nma.dfQ = 1 /\ nma.q <= 2
                THEN DOMAIN last.result = {"i2"}
                ELSE DOMAIN last.result = {"i2", "lower", "upper"}

\* one degree of freedom and a Q above 2: selogH is defined by the first formula
C18_Witness ==
    /\ Queried
    /\ last.op = "computeISquared"
    /\ nma.dfQ = 1
    /\ nma.q = 3
    /\ DOMAIN last.result = {"i2", "lower", "upper"}

\* Q and the degrees of freedom of the fixed effects solver pass, added up over
\* the components of the input
FixedEffectsQ ==
    Sum([c \in DOMAIN comps |->
            SolverQ(ComponentContrasts(studies, treatments, comps[c]), 1)])

FixedEffectsDfQ ==
    Sum([c \in DOMAIN comps |->
            DegreesOfFreedom(ComponentContrasts(studies, treatments, comps[c]))])

\* C17: the Q and the degrees of freedom of the model are those of the first
\* (fixed effects) solver pass whether randomEffects is true or false, so
\* computeISquared() gives for the same data the same result under either.
C17_ISquaredOfFixedEffectsPass ==
    /\ (Returned /\ last = <<>>) =>
          /\ nma.q = FixedEffectsQ
          /\ nma.dfQ = FixedEffectsDfQ
    /\ (Queried /\ last.op = "computeISquared") =>
          last.result = computeISquaredOf(FixedEffectsQ, FixedEffectsDfQ, last.width)

\* a random effects model, two solver passes for its component, whose I squared
\* was asked for
C17_Witness ==
    /\ Queried
    /\ last.op = "computeISquared"
    /\ randomEffects
    /\ solverRuns = 2 * Len(comps)
    /\ nma.dfQ >= 1
    /\ SolverQ(ComponentContrasts(studies, treatments, comps[1]), 2)
         # SolverQ(ComponentContrasts(studies, treatments, comps[1]), 1)
    /\ last.result # <<>>

\* Math.log of a value of Transform: the number behind Math.exp for an odds
\* ratio, the value itself for a mean difference
Untransformed(statistic, x) ==
    IF statistic = "OR" THEN (IF x = Num(1) THEN 0 ELSE x[2]) ELSE x[1]

\* x < y for two values of Transform (Math.exp is increasing)
Less(statistic, x, y) == Untransformed(statistic, x) < Untransformed(statistic, y)

\* w1 < w2 for two widths of the model, which Widths lists in ascending order
Narrower(w1, w2) == IndexOf(Widths, w1) < IndexOf(Widths, w2)

\* C19: for treatments a, b of one component with a positive standard error and
\* widths w1 < w2, the interval of computeInferentialStatistics(a, b, w2)
\* strictly contains that of computeInferentialStatistics(a, b, w1), for mean
\* differences and for odds ratios.
C19_WiderWidthWiderInterval ==
    (Queried /\ last.op = "computeInferentialStatistics" /\ ~last.result.threw) =>
        LET i == IndexOf(nma.treatments, last.a)
            j == IndexOf(nma.treatments, last.b)
            se == nma.standardErrors[i][j]
            narrow == last.result.value
        IN  (IsFinite(nma.treatmentEffects[i][j]) /\ IsFinite(se) /\ se[1] > 0) =>
                \A w2 \in Range(Widths) :
                    Narrower(last.width, w2) =>
                        LET wide == computeInferentialStatistics(nma, last.a, last.b, w2).value
                        IN  /\ Less(kind, wide.lower, narrow.lower)
                            /\ Less(kind, narrow.lower, narrow.upper)
                            /\ Less(kind, narrow.upper, wide.upper)

\* an odds ratio between two treatments of one component at the narrowest width
C19_Witness ==
    /\ Queried
    /\ last.op = "computeInferentialStatistics"
    /\ kind = "OR"
    /\ last.width = Widths[1]
    /\ ~last.result.threw
    /\ IsFinite(nma.treatmentEffects[IndexOf(nma.treatments, last.a)]
                                    [IndexOf(nma.treatments, last.b)])
    /\ nma.standardErrors[IndexOf(nma.treatments, last.a)]
                         [IndexOf(nma.treatments, last.b)] = Num(1)
    /\ Less(kind, last.result.value.lower, last.result.value.upper)
    /\ Less(kind, computeInferentialStatistics(nma, last.a, last.b, Widths[3]).value.lower,
            last.result.value.lower)

-----------------------------------------------------------------------------
(* Repeated studies and repeated arms (SpecCC).                            *)

\* the label of a study that the input does not have
NewStudy == 999

\* the treatments of the arms of a study, in the order of the input
TreatmentsOfStudy(s) ==
    [y \in DOMAIN ArmIxs(studies, s) |-> treatments[ArmIxs(studies, s)[y]]]

\* the components as a set of sets of treatments
AsPartition(res) == {Range(res[c]) : c \in DOMAIN res}

\* getConnectedComponents gives what it gave when the arms moreStudies,
\* moreTreatments are added at the end of the input
SameComponentsWith(moreStudies, moreTreatments) ==
    getConnectedComponents(studies \o moreStudies, treatments \o moreTreatments)
        = ccResult

\* added at the start of the input the arms can change the order of first
\* occurrence of the treatments: the components are the same sets of treatments
SamePartitionWith(moreStudies, moreTreatments) ==
    AsPartition(getConnectedComponents(moreStudies \o studies,
                                       moreTreatments \o treatments))
        = AsPartition(ccResult)

\* C20: adding a study that repeats the treatments of a study of the input (in
\* their order or in another one), or repeating an arm of a study, does not
\* change the components that getConnectedComponents returns.
C20_RepeatedStudiesSameComponents ==
    (ccPc = "returned" /\ Len(studies) > 0) =>
        /\ \A s \in Range(studies) :
              LET arms == TreatmentsOfStudy(s)
                  again == Repeat(Len(arms), NewStudy)
              IN  /\ SameComponentsWith(again, arms)
                  /\ SameComponentsWith(again, Reverse(arms))
                  /\ SamePartitionWith(again, Reverse(arms))
        /\ \A x \in DOMAIN studies :
              SameComponentsWith(<<studies[x]>>, <<treatments[x]>>)

\* two components, and a study of two or more treatments to repeat
C20_Witness ==
    /\ ccPc = "returned"
    /\ Len(ccResult) >= 2
    /\ \E s \in Range(studies) :
          /\ Cardinality(Range(TreatmentsOfStudy(s))) >= 2
          /\ getConnectedComponents(
                 studies \o Repeat(Len(TreatmentsOfStudy(s)), NewStudy),
                 treatments \o Reverse(TreatmentsOfStudy(s))) = ccResult

-----------------------------------------------------------------------------
(* The order of the components and of their treatments (SpecCC).           *)

\* where a treatment first appears in the treatments of the input
FirstAppearance(t) == IndexOf(treatments, t)

\* the treatment of a component that appears first in the input
EarliestOf(comp) ==
    CHOOSE t \in Range(comp) :
        \A u \in Range(comp) : FirstAppearance(t) <= FirstAppearance(u)

\* C21: the result of getConnectedComponents is a function of the input: the
\* components are in the order in which their earliest treatment first appears
\* in treatments, and each component starts with its earliest treatment.
C21_ComponentsInOrderOfFirstAppearance ==
    (ccPc = "returned" /\ Len(studies) > 0) =>
        /\ ccResult = getConnectedComponents(studies, treatments)
        /\ \A c \in DOMAIN ccResult :
              /\ Len(ccResult[c]) >= 1
              /\ ccResult[c][1] = EarliestOf(ccResult[c])
        /\ \A c \in DOMAIN ccResult, d \in DOMAIN ccResult :
              c < d => FirstAppearance(EarliestOf(ccResult[c]))
                         < FirstAppearance(EarliestOf(ccResult[d]))

\* two components of two or more treatments; the second one is reached from a
\* treatment that is not its last in the input
C21_Witness ==
    /\ ccPc = "returned"
    /\ Len(ccResult) >= 2
    /\ Len(ccResult[1]) >= 2
    /\ Len(ccResult[2]) >= 2
    /\ FirstAppearance(ccResult[2][1]) < FirstAppearance(ccResult[1][2])

-----------------------------------------------------------------------------
(* The merged matrices (Spec).                                             *)

\* the offset of the component c in the concatenated treatment list
OffsetOf(c) ==
    Sum([d \in 1..(c - 1) |-> Len(componentResults[d].orderedTreatments)])

\* the rows (and columns) of the block of the component c
BlockOf(c) ==
    {OffsetOf(c) + x : x \in 1..Len(componentResults[c].orderedTreatments)}

\* the cell (r, c) is in the block of no component
OffBlock(r, c) ==
    \A d \in DOMAIN componentResults : ~(r \in BlockOf(d) /\ c \in BlockOf(d))

\* the matrices of every component are in the merged matrices, at the offset
\* of the treatments of the component
BlocksInPlace ==
    \A d \in DOMAIN componentResults :
        \A x \in 1..Len(componentResults[d].orderedTreatments) :
            \A y \in 1..Len(componentResults[d].orderedTreatments) :
                /\ nma.treatments[OffsetOf(d) + x] = componentResults[d].orderedTreatments[x]
                /\ nma.treatmentEffects[OffsetOf(d) + x][OffsetOf(d) + y]
                     = componentResults[d].treatmentEffects[x][y]
                /\ nma.standardErrors[OffsetOf(d) + x][OffsetOf(d) + y]
                     = componentResults[d].standardErrors[x][y]

-----------------------------------------------------------------------------
(* The contrasts of a study (Spec).                                        *)

\* the entries of the study level effects of the model that the study s gave
EntriesOfStudy(s) ==
    {z \in DOMAIN nma.studyLevelEffects : nma.studyLevelEffects[z].study = s}

\* C23: a study of k arms gives k(k-1)/2 contrasts, for odds ratios and for
\* mean differences: one for every pair of arms, none twice, each from the arm
\* of the lower index to the arm of the higher index; a study of one arm gives
\* none.
C23_AllPairsLowerToHigher ==
    (Returned /\ last = <<>>) =>
        \A s \in Range(studies) :
            LET arms == ArmIxs(studies, s)
                k == Len(arms)
            IN  /\ 2 * Cardinality(EntriesOfStudy(s)) = k * (k - 1)
                /\ \A x \in 1..k, y \in 1..k :
                      x < y =>
                          Cardinality({z \in EntriesOfStudy(s) :
                              /\ nma.studyLevelEffects[z].treatment1 = treatments[arms[x]]
                              /\ nma.studyLevelEffects[z].treatment2 = treatments[arms[y]]
                              /\ nma.studyLevelEffects[z].effect
                                   = EffectOfArms(arms[x], arms[y])}) = 1
                /\ k = 1 => EntriesOfStudy(s) = {}

\* a study of three or more arms and a study of one arm in one model
C23_Witness ==
    /\ Returned
    /\ last = <<>>
    /\ \E s \in Range(studies) :
          /\ Len(ArmIxs(studies, s)) >= 3
          /\ Cardinality(EntriesOfStudy(s)) >= 3
    /\ \E s \in Range(studies) :
          /\ Len(ArmIxs(studies, s)) = 1
          /\ EntriesOfStudy(s) = {}

-----------------------------------------------------------------------------
(* The degrees of freedom of Q (Spec).                                     *)

\* the studies of two or more arms of the component c of the model, and the
\* number of arms of a study
StudiesOfComponent(c) ==
    SelectSeq(UniqueStudiesInComponent(studies, treatments, comps[c]),
              LAMBDA s : Len(ArmIxs(studies, s)) >= 2)

ArmCount(s) == Len(ArmIxs(studies, s))

\* C(a, 2)
Choose2(a) == (a * (a - 1)) \div 2

RECURSIVE Product(_)
Product(s) == IF s = <<>> THEN 1 ELSE Head(s) * Product(Tail(s))

\* C24 as stated: the degrees of freedom of a component are 2 times the sum
\* over its distinct studies of 1 / C(arms of the study, 2), less the number of
\* treatments minus 1.  Both sides are multiplied by the product of the
\* C(arms, 2) of the studies.
C24_DfFromInversePairsOfStudies ==
    (Returned /\ last = <<>>) =>
        \A c \in DOMAIN comps :
            LET ss == StudiesOfComponent(c)
                scale == Product([x \in DOMAIN ss |-> Choose2(ArmCount(ss[x]))])
            IN  scale * componentResults[c].dfQ
                  = (2 * Sum([x \in DOMAIN ss |-> scale \div Choose2(ArmCount(ss[x]))]))
                      - (scale * (Len(comps[c]) - 1))

\* C24 amended: the degrees of freedom of a component are 2 times the sum over
\* its contrasts of 1 / (arms of the study of the contrast), which is the sum
\* over its distinct studies of (arms of the study - 1), less the number of
\* treatments minus 1.
C24_DfFromArmsOfContrasts ==
    (Returned /\ last = <<>>) =>
        \A c \in DOMAIN comps :
            LET ss == StudiesOfComponent(c)
                contrasts == ComponentContrasts(studies, treatments, comps[c])
                scale == Product([x \in DOMAIN ss |-> ArmCount(ss[x])])
            IN  /\ componentResults[c].dfQ
                     = Sum([x \in DOMAIN ss |-> ArmCount(ss[x]) - 1])
                         - (Len(comps[c]) - 1)
                /\ scale * componentResults[c].dfQ
                     = (2 * Sum([x \in DOMAIN contrasts |->
                                   scale \div ArmCount(contrasts[x].study)]))
                         - (scale * (Len(comps[c]) - 1))

\* a component of a study of three arms and a study of two arms
C24_Witness ==
    /\ Returned
    /\ last = <<>>
    /\ \E c \in DOMAIN comps :
          /\ \E x \in DOMAIN StudiesOfComponent(c) : ArmCount(StudiesOfComponent(c)[x]) = 3
          /\ \E x \in DOMAIN StudiesOfComponent(c) : ArmCount(StudiesOfComponent(c)[x]) = 2
          /\ componentResults[c].dfQ = 1

-----------------------------------------------------------------------------
(* _NMA called with arrays of any lengths.  nma holds the arguments of the *)
(* call, pc its position and err what it threw.                            *)

NMAInit ==
    /\ kind = "NMA" /\ studies = <<>> /\ treatments = <<>>
    /\ IdleInput /\ IdleCC /\ IdleFill
    /\ pc = "call" /\ err = "none" /\ comps = <<>> /\ compIx = 0
    /\ componentResults = <<>>
    /\ \E m \in 0..MaxLen, s \in 0..MaxLen, a \in 0..MaxLen, b \in 0..MaxLen :
          nma = [effects           |-> Repeat(m, 0),
                 standardErrors    |-> Repeat(s, 1),
                 treatmentIndicesA |-> Repeat(a, 0),
                 treatmentIndicesB |-> Repeat(b, 1)]
    /\ contrastsBuilt = 0 /\ seCorrections = 0 /\ solverRuns = 0
    /\ last = <<>>

\* the four arrays of the call have one length
NMASameLengths ==
    /\ Len(nma.effects) = Len(nma.standardErrors)
    /\ Len(nma.effects) = Len(nma.treatmentIndicesA)
    /\ Len(nma.effects) = Len(nma.treatmentIndicesB)

\* nma.js:403-408: the check throws
NMACheckThrows ==
    /\ pc = "call"
    /\ NMALengthCheck(nma.effects, nma.standardErrors,
                      nma.treatmentIndicesA, nma.treatmentIndicesB) # "passed"
    /\ pc' = "threw"
    /\ err' = NMALengthCheck(nma.effects, nma.standardErrors,
                             nma.treatmentIndicesA, nma.treatmentIndicesB)
    /\ UNCHANGED <<comps, compIx, componentResults, nma,
                   contrastsBuilt, seCorrections, solverRuns, last>>
    /\ UNCHANGED <<inputVars, ccVars, fillVars>>

\* nma.js:403-408: the check lets the call through
NMACheckPasses ==
    /\ pc = "call"
    /\ NMALengthCheck(nma.effects, nma.standardErrors,
                      nma.treatmentIndicesA, nma.treatmentIndicesB) = "passed"
    /\ pc' = "checked"
    /\ UNCHANGED <<err, comps, compIx, componentResults, nma,
                   contrastsBuilt, seCorrections, solverRuns, last>>
    /\ UNCHANGED <<inputVars, ccVars, fillVars>>

\* after the check, _NMA reads treatmentIndicesB only at the positions below
\* the length of treatmentIndicesA (nma.js:39-42, 445-447) and through the
\* union of the indices (nma.js:411): with as many standard errors and A
\* indices as effects, further B indices that name known treatments change
\* nothing, and the call runs as on arrays of one length
NMARunsAsSameLengths ==
    /\ Len(nma.effects) = Len(nma.standardErrors)
    /\ Len(nma.effects) = Len(nma.treatmentIndicesA)
    /\ Len(nma.effects) <= Len(nma.treatmentIndicesB)

\* nma.js:410-511: the matrix work.  Arrays that run as arrays of one length
\* give a result, or the error of the matrix inversion when there is no
\* contrast.  For the other arrays the code has no check of its own left:
\* whether the matrix library throws on matrices of unfitting dimensions or
\* computes with them is the library's choice
NMASolve ==
    /\ pc = "checked"
    /\ IF NMARunsAsSameLengths
       THEN IF NMAThrows(nma.effects)
            THEN pc' = "threw" /\ err' = "matrix"
            ELSE pc' = "returned" /\ err' = "none"
       ELSE \/ pc' = "threw" /\ err' = "matrix"
            \/ pc' = "returned" /\ err' = "none"
    /\ solverRuns' = solverRuns + 1
    /\ UNCHANGED <<comps, compIx, componentResults, nma,
                   contrastsBuilt, seCorrections, last>>
    /\ UNCHANGED <<inputVars, ccVars, fillVars>>

NMANext == NMACheckThrows \/ NMACheckPasses \/ NMASolve

SpecNMA == NMAInit /\ [][NMANext]_vars

\* C25: _NMA throws whenever the effects, the standard errors and the two
\* arrays of treatment indices do not all have the same length, also when only
\* one of them differs from the effects: such a call never returns a result.
C25_UnequalLengthsNeverReturn ==
    ~NMASameLengths => pc # "returned"

-----------------------------------------------------------------------------
(* Single-arm studies.                                                     *)

\* the positions of the arms whose study has a second arm
MultiArmPositions ==
    SelectSeq([x \in DOMAIN studies |-> x],
              LAMBDA x : \E y \in DOMAIN studies : y # x /\ studies[y] = studies[x])

HasMultiArmStudy == MultiArmPositions # <<>>

HasSingleArmStudy == Len(MultiArmPositions) < Len(studies)

\* what _generalizedNMA merges for the studies stds and the treatments trts, as
\* FindComponents, SolveComponent and Merge compute it (nma.js:669-741)
MergedResultOf(stds, trts) ==
    LET cs == getConnectedComponents(stds, trts)
    IN  mergeComponentNMAResults(
            [c \in DOMAIN cs |->
                ComponentResult(ComponentContrasts(stds, trts, cs[c]), theta)])

\* the cell of the pair (a, b) of a merged matrix
CellOf(ordered, matrix, a, b) ==
    matrix[IndexOf(ordered, a)][IndexOf(ordered, b)]

\* C26: single-arm studies are accepted and ignored: on an input that passes
\* the preconditions and has a study of two or more arms besides its
\* single-arm studies, the construction never throws, and the object it
\* returns has, for every pair of treatments of the studies of two or more
\* arms, the effect and the standard error of the construction on these
\* studies alone.
C26_SingleArmStudiesAcceptedAndIgnored ==
    (Preconditions = "none" /\ HasMultiArmStudy /\ HasSingleArmStudy) =>
        /\ pc # "threw"
        /\ (Returned /\ last = <<>>) =>
              LET stds0 == [x \in DOMAIN MultiArmPositions |-> studies[MultiArmPositions[x]]]
                  trts0 == [x \in DOMAIN MultiArmPositions |-> treatments[MultiArmPositions[x]]]
                  alone == MergedResultOf(stds0, trts0)
              IN  \A a \in Range(trts0), b \in Range(trts0) :
                     /\ CellOf(nma.treatments, nma.treatmentEffects, a, b)
                           = CellOf(alone.orderedTreatments, alone.treatmentEffects, a, b)
                     /\ CellOf(nma.treatments, nma.standardErrors, a, b)
                           = CellOf(alone.orderedTreatments, alone.standardErrors, a, b)

\* the part of C26 that holds: single-arm studies of treatments that all occur
\* in a study of two or more arms
C26_SingleArmStudiesOfComparedTreatments ==
    (/\ Preconditions = "none" /\ HasMultiArmStudy /\ HasSingleArmStudy
     /\ \A x \in DOMAIN treatments :
           \E y \in Range(MultiArmPositions) : treatments[y] = treatments[x]) =>
        /\ pc # "threw"
        /\ (Returned /\ last = <<>>) =>
              LET stds0 == [x \in DOMAIN MultiArmPositions |-> studies[MultiArmPositions[x]]]
                  trts0 == [x \in DOMAIN MultiArmPositions |-> treatments[MultiArmPositions[x]]]
                  alone == MergedResultOf(stds0, trts0)
              IN  \A a \in Range(trts0), b \in Range(trts0) :
                     /\ CellOf(nma.treatments, nma.treatmentEffects, a, b)
                           = CellOf(alone.orderedTreatments, alone.treatmentEffects, a, b)
                     /\ CellOf(nma.treatments, nma.standardErrors, a, b)
                           = CellOf(alone.orderedTreatments, alone.standardErrors, a, b)

-----------------------------------------------------------------------------
(* C27.                                                                    *)

\* C27: when every cell of direct evidence is theta[a] - theta[b] for one
\* value theta per treatment, then after the direct evidence is written, at
\* every step of the triple loop and at its end, every cell (i, j) that is not
\* NaN is theta[i] - theta[j]: the fill writes and overwrites cells only with
\* values that agree with the direct evidence.
C27_FillAgreesWithDirectEvidence ==
    fPc \in {"fill", "done"} =>
        \A i \in 1..fN, j \in 1..fN :
            ~isNaN(agg[i][j]) => agg[i][j] = Num(theta[i] - theta[j])

\* the end of the fill on the chain 1 - 2 - 3: the pair (1, 3), of which there
\* is no direct evidence, holds theta[1] - theta[3]
C27_Witness ==
    /\ fPc = "done"
    /\ fN = 3
    /\ fDirect = {<<1, 2>>, <<2, 3>>}
    /\ agg[1][3] = Num(theta[1] - theta[3])
    /\ agg[3][1] = Num(theta[3] - theta[1])

-----------------------------------------------------------------------------
(* C28.                                                                    *)

\* C28: a NetworkMetaAnalysis is immutable under querying: no call of
\* getEffect, computeInferentialStatistics, getTreatments, computePScores,
\* computeStudyLevelEffects, computeComparisonAdjustedEffects or
\* computeISquared, and no mutation by the caller of a value that one of them
\* returned, changes the effect matrix, the standard error matrix, the
\* treatments, the study-level effects, Q or the degrees of freedom; a later
\* query, which reads nothing else, gives what it gave before.
C28_ImmutableUnderQuerying ==
    [][pc = "built" => nma' = nma]_vars

\* the caller overwrote the objects that computeComparisonAdjustedEffects
\* returned for a treatment that is the first of a stored study-level effect
C28_Witness ==
    /\ Queried
    /\ last.op = "mutated"
    /\ last.b = "computeComparisonAdjustedEffects"
    /\ \E x \in DOMAIN nma.studyLevelEffects : nma.studyLevelEffects[x].treatment1 = last.a
    /\ \A x \in DOMAIN last.result.effects : last.result.effects[x].treatment2 = Absent
    /\ \A x \in DOMAIN nma.studyLevelEffects : nma.studyLevelEffects[x].treatment2 # Absent

-----------------------------------------------------------------------------
(* C29.                                                                    *)

\* C29: whenever the construction succeeds, the degrees of freedom of each
\* component, in exact arithmetic the sum over its studies of (arms - 1) less
\* (treatments - 1), are a non-negative integer: the contrasts of every study
\* add a whole number, twice their number being a multiple of its arms.  The
\* merged degrees of freedom are the sum over the components and a
\* non-negative integer too, and the merged Q is the sum of the Q of the
\* components.
C29_DfNonNegativeAndSummed ==
    (Returned /\ last = <<>>) =>
        /\ \A c \in DOMAIN comps :
              LET ss == StudiesOfComponent(c)
              IN  /\ \A x \in DOMAIN ss :
                        (2 * Choose2(ArmCount(ss[x]))) % ArmCount(ss[x]) = 0
                  /\ componentResults[c].dfQ
                        = Sum([x \in DOMAIN ss |-> ArmCount(ss[x]) - 1])
                            - (Len(comps[c]) - 1)
                  /\ componentResults[c].dfQ \in Nat
        /\ nma.dfQ = Sum([c \in DOMAIN componentResults |-> componentResults[c].dfQ])
        /\ nma.dfQ \in Nat
        /\ nma.q = Sum([c \in DOMAIN componentResults |-> componentResults[c].q])

\* two components, the first with no degree of freedom, the second with one
C29_Witness ==
    /\ Returned
    /\ Len(componentResults) = 2
    /\ componentResults[1].dfQ = 0
    /\ componentResults[2].dfQ = 1
    /\ nma.dfQ = 1
    /\ nma.q = componentResults[1].q + componentResults[2].q
    /\ componentResults[1].q > 0

-----------------------------------------------------------------------------
(* SpecDFS: getConnectedComponents with the depth-first searches taken     *)
(* step by step.  stack holds the calls of dfsAccumulate that have not     *)
(* returned, each with the position x of neighbors.forEach;                *)
(* currentComponent is the visited set that the calls share.  The call is  *)
(* one synchronous run of a single thread: a step that can be taken is     *)
(* taken.                                                                  *)

DFSInit ==
    /\ kind = "DFS"
    /\ \E n \in 0..MaxFreeArms :
          /\ studies \in StudyArrays(n)
          /\ \/ treatments \in TreatmentArrays(n)
             \/ n > 0 /\ treatments \in TreatmentArrays(n - 1)
    /\ IdleInput /\ IdleNMA /\ IdleFill
    /\ ccPc = "call" /\ nodes = <<>> /\ adjacency = <<>> /\ components = <<>>
    /\ searchStart = 0 /\ ccResult = <<>>
    /\ currentComponent = <<>> /\ stack = <<>>

\* a call dfsAccumulate(currentIx, adjacency, visitedIxs) at the start of its
\* forEach
Call(currentIx) == [currentIx |-> currentIx, x |-> 1]

\* the neighbours of the call on top of the stack (graph.js:4-7)
TopNeighbors == Neighbors(stack[Len(stack)].currentIx, adjacency)

\* graph.js:41-59: nodes, adjacency, and the call of the first search
DFSFirstSearch ==
    /\ ccPc = "call"
    /\ Len(studies) = Len(treatments)
    /\ Len(studies) # 0
    /\ nodes' = BuildNodes(treatments)
    /\ adjacency' = BuildAdjacency(studies, treatments, nodes')
    /\ currentComponent' = <<>>
    /\ stack' = <<Call(1)>>
    /\ ccPc' = "search"
    /\ UNCHANGED <<components, searchStart, ccResult>>
    /\ UNCHANGED <<inputVars, nmaVars, fillVars>>

\* graph.js:8-12: the next neighbour is not visited: it is added and searched
DFSVisit ==
    /\ ccPc = "search"
    /\ stack # <<>>
    /\ stack[Len(stack)].x <= Len(TopNeighbors)
    /\ LET nix == TopNeighbors[stack[Len(stack)].x]
       IN  /\ nix \notin Range(currentComponent)
           /\ currentComponent' = Append(currentComponent, nix)
           /\ stack' = Append([stack EXCEPT ![Len(stack)].x = @ + 1], Call(nix))
    /\ UNCHANGED <<ccPc, nodes, adjacency, components, searchStart, ccResult>>
    /\ UNCHANGED <<inputVars, nmaVars, fillVars>>

\* graph.js:9, 13: the next neighbour is visited already
DFSSkip ==
    /\ ccPc = "search"
    /\ stack # <<>>
    /\ stack[Len(stack)].x <= Len(TopNeighbors)
    /\ TopNeighbors[stack[Len(stack)].x] \in Range(currentComponent)
    /\ stack' = [stack EXCEPT ![Len(stack)].x = @ + 1]
    /\ UNCHANGED <<ccPc, nodes, adjacency, components, searchStart, ccResult,
                   currentComponent>>
    /\ UNCHANGED <<inputVars, nmaVars, fillVars>>

\* graph.js:15: forEach is through, the call returns
DFSReturn ==
    /\ ccPc = "search"
    /\ stack # <<>>
    /\ stack[Len(stack)].x > Len(TopNeighbors)
    /\ stack' = SubSeq(stack, 1, Len(stack) - 1)
    /\ UNCHANGED <<ccPc, nodes, adjacency, components, searchStart, ccResult,
                   currentComponent>>
    /\ UNCHANGED <<inputVars, nmaVars, fillVars>>

\* graph.js:60-61, 65-66: the search is over; its component and the next start
DFSSearchDone ==
    /\ ccPc = "search"
    /\ stack = <<>>
    /\ components' = Append(components, currentComponent)
    /\ searchStart' = getNextSearchStart(components', nodes)
    /\ ccPc' = "loop"
    /\ UNCHANGED <<nodes, adjacency, ccResult, currentComponent, stack>>
    /\ UNCHANGED <<inputVars, nmaVars, fillVars>>

\* graph.js:62-64: the while loop starts a search
DFSNextSearch ==
    /\ ccPc = "loop"
    /\ searchStart >= 1
    /\ currentComponent' = <<>>
    /\ stack' = <<Call(searchStart)>>
    /\ ccPc' = "search"
    /\ UNCHANGED <<nodes, adjacency, components, searchStart, ccResult>>
    /\ UNCHANGED <<inputVars, nmaVars, fillVars>>

DFSNext ==
    \/ CCThrow
    \/ CCEmpty
    \/ DFSFirstSearch
    \/ DFSVisit
    \/ DFSSkip
    \/ DFSReturn
    \/ DFSSearchDone
    \/ DFSNextSearch
    \/ CCReturn

SpecDFS == DFSInit /\ [][DFSNext]_vars /\ WF_vars(DFSNext)

\* the node at which the c-th search started: the first node (graph.js:59),
\* then what getNextSearchStart gave for the components before (graph.js:61-66)
StartOfSearch(c) ==
    IF c = 1 THEN 1 ELSE getNextSearchStart(SubSeq(components, 1, c - 1), nodes)

\* the classes of treatments that paths of shared-study edges connect
PathClasses == {PathClass(t) : t \in Range(treatments)}

NoRepetition(s) == \A x \in DOMAIN s, y \in DOMAIN s : s[x] = s[y] => x = y

\* a search has added each node at most once; a search that is over has added
\* its own start node, which has an edge to itself, and all that
\* dfsAccumulate adds from it; no more searches have run than there are
\* components, and at the return exactly as many
SearchesAdvance ==
    /\ NoRepetition(currentComponent)
    /\ ccPc \in {"loop", "returned"} =>
          /\ \A c \in DOMAIN components :
                /\ NoRepetition(components[c])
                /\ StartOfSearch(c) \in Range(components[c])
                /\ adjacency[StartOfSearch(c)][StartOfSearch(c)] = 1
                /\ components[c] = dfsAccumulate(StartOfSearch(c), adjacency, <<>>)
          /\ Len(components) <= Cardinality(PathClasses)
          /\ ccPc = "returned" => Len(components) = Cardinality(PathClasses)

\* C30: getConnectedComponents terminates on every non-empty input: the call
\* ends, returning or throwing.  Each depth-first search adds every node at
\* most once, each search assigns at least its own start node, which has an
\* edge to itself, and the searches are as many as the components.
C30_SearchTerminates ==
    /\ []SearchesAdvance
    /\ (ccPc = "call" /\ Len(studies) > 0) ~> (ccPc \in {"returned", "threw"})

\* a return after three searches, the second and the third started by the loop
C30_Witness ==
    /\ kind = "DFS"
    /\ ccPc = "returned"
    /\ Len(components) = 3
    /\ Len(ccResult) = 3
    /\ stack = <<>>
    /\ searchStart = 0

=========================================================================
